---- MODULE Spec2Model ----
(***************************************************************************)
(* A model of homeassistant/config.py: the package merger                  *)
(* (merge_packages_config, _recursive_merge), the merge-policy resolution  *)
(* and the per-domain validator (async_process_component_config).          *)
(*                                                                         *)
(* Python values are records tagged by kind.  A str is a sequence of       *)
(* tokens (<<"light", " ", "two">> is "light two"), so that partition(" ") *)
(* and the slug check work on the characters of the name.  A dict is the   *)
(* sequence of its items in insertion order.                               *)
(***************************************************************************)
EXTENDS Integers, Sequences, FiniteSets, TLC

VARIABLES
    config,        \* merge: the document merge_packages_config mutates
    packages,      \* merge: the packages argument
    integrations,  \* what the loader answers for each domain
    mpc,           \* merge: "start", "loop", "done", "invalid", "raised"
    pos,           \* merge: index of the next (package, component) pair
    pkg_errors,    \* merge: the calls made to _log_pkg_error, in order
    config0,       \* history: the document as it was when the merge was called
    hist,          \* history: one record per pair the loop body has handled
    vdom,          \* validation: the domain each call validates
    vpc,           \* validation: where each call of async_process_component_config is
    vidx,          \* validation: index of the platform entry being handled
    vplatforms,    \* validation: platforms, the validated entries so far
    vexc,          \* validation: config_exceptions
    vcalls,        \* history: the validators and schemas each call has invoked
    vresult,       \* validation: the IntegrationConfigInfo returned
    vhandle,       \* validation: what async_handle_component_errors did with it
    fcall,         \* a call of one of the module's functions: its arguments
    fret           \* what that call returned

mergeVars == <<packages, mpc, pos, pkg_errors, hist>>
validateVars == <<vdom, vpc, vidx, vplatforms, vexc, vcalls, vresult, vhandle>>
pureVars == <<fcall, fret>>
vars == <<config, integrations, config0, mergeVars, validateVars, pureVars>>

----------------------------------------------------------------------------
\* Python values

NoneV == [t |-> "none"]
Scalar(s) == [t |-> "scalar", v |-> s]
Dict(items) == [t |-> "dict", items |-> items]
List(items) == [t |-> "list", items |-> items]
Item(k, val) == [k |-> k, val |-> val]

IsNone(x) == x.t = "none"
IsScalar(x) == x.t = "scalar"
IsDict(x) == x.t = "dict"
IsList(x) == x.t = "list"

\* bool(x): None, 0, and empty containers are falsy
Truthy(x) ==
    CASE IsNone(x) -> FALSE
      [] IsScalar(x) -> x.v # "0"
      [] OTHER -> Len(x.items) > 0

HasKey(d, k) == \E i \in 1..Len(d.items) : d.items[i].k = k

\* d.get(k, default)
dict_get(d, k, default) ==
    IF HasKey(d, k)
    THEN d.items[CHOOSE i \in 1..Len(d.items) : d.items[i].k = k].val
    ELSE default

\* d[k] = v: an existing key keeps its place, a new key goes last
dict_set(d, k, v) ==
    IF HasKey(d, k)
    THEN Dict([i \in 1..Len(d.items) |->
                 IF d.items[i].k = k THEN Item(k, v) ELSE d.items[i]])
    ELSE Dict(Append(d.items, Item(k, v)))

\* cv.ensure_list: None gives [], a list is itself, anything else is wrapped
ensure_list(value) ==
    IF IsNone(value) THEN <<>>
    ELSE IF IsList(value) THEN value.items
    ELSE <<value>>

\* cv.remove_falsy: [v for v in value if v]
RECURSIVE remove_falsy(_)
remove_falsy(s) ==
    IF s = <<>> THEN <<>>
    ELSE IF Truthy(Head(s)) THEN <<Head(s)>> \o remove_falsy(Tail(s))
    ELSE remove_falsy(Tail(s))

\* comp_name.partition(" ")[0]: the tokens before the first " "
RECURSIVE partition_head(_)
partition_head(s) ==
    IF s = <<>> \/ Head(s) = " " THEN <<>>
    ELSE <<Head(s)>> \o partition_head(Tail(s))

CONF_CORE == <<"homeassistant">>

\* duplicate_key = None
NoKey == <<"<None>">>

----------------------------------------------------------------------------
\* _recursive_merge(conf, package), from item i of the package on.  The result
\* is the conf as mutated, the returned duplicate key and whether the call
\* raised (conf.get on a conf that is no dict is an AttributeError).

RECURSIVE recursive_merge_from(_, _, _, _)
recursive_merge_from(conf, items, i, duplicate_key) ==
    IF i > Len(items)
    THEN [conf |-> conf, duplicate_key |-> duplicate_key, raised |-> FALSE]
    ELSE
      LET key == items[i].k
          pack_conf == items[i].val
          raise == [conf |-> conf, duplicate_key |-> NoKey, raised |-> TRUE]
      IN
      IF IsDict(pack_conf)
      THEN
        IF Len(pack_conf.items) = 0
        THEN recursive_merge_from(conf, items, i + 1, duplicate_key)
        ELSE IF ~IsDict(conf) THEN raise
        ELSE
          LET sub == recursive_merge_from(dict_get(conf, key, Dict(<<>>)),
                                          pack_conf.items, 1, NoKey)
              conf1 == dict_set(conf, key, sub.conf)
          IN IF sub.raised
             THEN [conf |-> conf1, duplicate_key |-> NoKey, raised |-> TRUE]
             ELSE recursive_merge_from(conf1, items, i + 1, sub.duplicate_key)
      ELSE IF IsList(pack_conf)
      THEN
        IF ~IsDict(conf) THEN raise
        ELSE recursive_merge_from(
               dict_set(conf, key,
                        List(remove_falsy(ensure_list(dict_get(conf, key, NoneV))
                                          \o ensure_list(pack_conf)))),
               items, i + 1, duplicate_key)
      ELSE
        IF ~IsDict(conf) THEN raise
        ELSE IF ~IsNone(dict_get(conf, key, NoneV))
        THEN [conf |-> conf, duplicate_key |-> key, raised |-> FALSE]
        ELSE recursive_merge_from(dict_set(conf, key, pack_conf),
                                  items, i + 1, duplicate_key)

\* A merge that writes an empty mapping of the package over the conf's value
recursive_merge_writes_empty(conf, package) ==
    LET merged == recursive_merge_from(conf, package.items, 1, NoKey)
        empty == {i \in 1..Len(package.items) : package.items[i].val = Dict(<<>>)}
    IN IF empty = {} \/ ~IsDict(merged.conf) THEN merged
       ELSE [merged EXCEPT !.conf =
               dict_set(merged.conf, package.items[CHOOSE i \in empty : TRUE].k,
                        Dict(<<>>))]

recursive_merge(conf, package) == recursive_merge_from(conf, package.items, 1, NoKey)

----------------------------------------------------------------------------
\* What the loader answers for a domain.
\*   load            "ok"; "integ_exc": async_get_integration_with_requirements
\*                   raises IntegrationNotFound or RequirementsNotFound;
\*                   "load_exc": get_component raises ImportError or
\*                   FileNotFoundError
\*   config_platform get_platform("config"): "missing" (ImportError naming the
\*                   config module itself), "bad_import" (ImportError from an
\*                   import inside it), "no_validator" (a module without
\*                   async_validate_config), "validator"
\*   hint            PACKAGE_MERGE_HINT of the config platform: "list", "dict",
\*                   or "missing" (no such attribute)
\*   platform_schema, platform_schema_base
\*                   hasattr(component, "PLATFORM_SCHEMA"/"PLATFORM_SCHEMA_BASE")
\*   config_schema   the component's CONFIG_SCHEMA, see identify_config_schema

NoSchema ==
    [present |-> FALSE, is_schema |-> FALSE, top |-> "other", has_domain_key |-> FALSE,
     default |-> "undefined", text |-> <<>>]

\*   validator_result what async_validate_config does: "ok", "invalid"
\*                   (vol.Invalid), "ha_error" (HomeAssistantError), "exception"
\*   schema_result   what CONFIG_SCHEMA does: "ok", "invalid", "exception"
\*   platform        get_platform(domain) of an integration named as a platform:
\*                   "schema" (a module with PLATFORM_SCHEMA), "no_schema",
\*                   "load_exc" (ImportError or FileNotFoundError)
Integration(load, cp, hint, ps, psb, cs) ==
    [load |-> load, config_platform |-> cp, hint |-> hint, platform_schema |-> ps,
     platform_schema_base |-> psb, config_schema |-> cs,
     validator_result |-> "ok", schema_result |-> "ok", platform |-> "no_schema"]

\* The result of a validation that has not returned yet
NotReturned == [returned |-> FALSE, config |-> NoneV, exception_info_list |-> <<>>]

\* ConfigValidationError(message, exceptions, translation_domain,
\* translation_key, translation_placeholders), lines 1216-1222
ConfigValidationError(message, exceptions, key, placeholders) ==
    [message |-> message, exceptions |-> exceptions,
     translation_domain |-> "homeassistant", translation_key |-> key,
     translation_placeholders |-> placeholders]

\* What a call of async_handle_component_errors did: the records it logged, and
\* the error it raised or the config it returned
HandleResult(raise_on_failure, logged, raised, error, returned) ==
    [handled |-> TRUE, raise_on_failure |-> raise_on_failure, logged |-> logged,
     raised |-> raised, error |-> error, returned |-> returned]

NoError == ConfigValidationError(<<>>, <<>>, "", <<>>)

NotHandled == [HandleResult(FALSE, <<>>, FALSE, NoError, NoneV) EXCEPT !.handled = FALSE]

NotFound == Integration("integ_exc", "missing", "missing", FALSE, FALSE, NoSchema)

\* _identify_config_schema(module): "dict", "list" or "none".
\*   is_schema      isinstance(module.CONFIG_SCHEMA, vol.Schema)
\*   top            CONFIG_SCHEMA.schema: "dict" (a mapping), "all_dict" (vol.All
\*                  with a mapping among its validators), "all_nodict" (vol.All
\*                  without one), "other" (not iterable: TypeError)
\*   has_domain_key some key of the mapping equals module.DOMAIN
\*   default        the key's default: "undefined", or the type the schema gives
\*                  the default value: "dict", "list", "other"
\*   text           str(schema[key]) as tokens
identify_config_schema(cs) ==
    IF ~cs.is_schema THEN "none"
    ELSE IF cs.top = "all_nodict" THEN "none"
    ELSE IF cs.top = "other" \/ ~cs.has_domain_key THEN "none"
    ELSE IF cs.default # "undefined"
    THEN (IF cs.default = "dict" THEN "dict"
          ELSE IF cs.default = "list" THEN "list"
          ELSE "none")
    ELSE
      LET t_schema == cs.text IN
      IF (t_schema # <<>> /\ Head(t_schema) = "{")
         \/ (\E i \in 1..Len(t_schema) : t_schema[i] = "schema_with_slug_keys")
      THEN "dict"
      ELSE IF t_schema # <<>> /\ Head(t_schema) \in {"[", "All(<function ensure_list"}
      THEN "list"
      ELSE "none"

\* A resolution that merges as a list whatever is not known to be a mapping
merge_policy_list_when_unknown(integ) ==
    LET has_validator == integ.config_platform = "validator"
        by_hint == has_validator /\ integ.hint = "list"
        by_platform == IF ~by_hint THEN integ.platform_schema ELSE by_hint
        by_schema == IF ~by_platform
                     THEN ~integ.config_schema.present
                          \/ identify_config_schema(integ.config_schema) # "dict"
                     ELSE by_platform
    IN [merge_list |-> by_schema, raised |-> has_validator /\ integ.hint = "missing"]

\* merge_packages_config, lines 997-1015: the merge policy of a loaded
\* integration. raised: the config platform has a validator and no
\* PACKAGE_MERGE_HINT (AttributeError).
merge_policy(integ) ==
    LET has_validator == integ.config_platform = "validator"
        by_hint == has_validator /\ integ.hint = "list"
        by_platform == IF ~by_hint THEN integ.platform_schema ELSE by_hint
        by_schema == IF ~by_platform /\ integ.config_schema.present
                     THEN identify_config_schema(integ.config_schema) = "list"
                     ELSE by_platform
    IN [merge_list |-> by_schema, raised |-> has_validator /\ integ.hint = "missing"]

\* A list merge that puts the incoming fragment first
merge_list_value_incoming_first(existing, comp_conf) ==
    List(remove_falsy(ensure_list(comp_conf) \o ensure_list(existing)))

\* lines 1017-1020: the value a list merge stores at config[comp_name]
merge_list_value(existing, comp_conf) ==
    List(remove_falsy(ensure_list(existing) \o ensure_list(comp_conf)))

PkgError(pack_name, comp_name, kind, key) ==
    [package |-> pack_name, component |-> comp_name, kind |-> kind, key |-> key]

\* `if duplicate_key:` a key is reported when it is not None and not ""
ReportsDuplicate(duplicate_key) == duplicate_key # NoKey /\ duplicate_key # <<>>

\* A loop that takes the core section for a domain like any other
is_core_section_never(comp_name) == FALSE

\* line 973: comp_name == CONF_CORE
is_core_section(comp_name) == comp_name = CONF_CORE

\* The body of the loop of merge_packages_config for one (package, component)
\* pair, lines 973-1060.
merge_component(conf, pack_name, comp_name, comp_conf, integ) ==
    LET out(c, errs, raised, policy) ==
            [config |-> c, errors |-> errs, raised |-> raised, policy |-> policy]
        err(kind) == <<PkgError(pack_name, comp_name, kind, NoKey)>>
    IN
    IF is_core_section(comp_name) THEN out(conf, <<>>, FALSE, "core")
    ELSE IF integ.load = "load_exc" THEN out(conf, err("load_exc"), FALSE, "unloadable")
    ELSE IF integ.load = "integ_exc" THEN out(conf, err("integ_exc"), FALSE, "unloadable")
    ELSE
      LET policy == merge_policy(integ) IN
      IF policy.raised THEN out(conf, <<>>, TRUE, "raise")
      ELSE IF policy.merge_list
      THEN out(dict_set(conf, comp_name,
                        merge_list_value(dict_get(conf, comp_name, NoneV), comp_conf)),
               <<>>, FALSE, "list")
      ELSE
        LET comp_conf1 == IF IsNone(comp_conf) THEN Dict(<<>>) ELSE comp_conf IN
        IF ~IsDict(comp_conf1) THEN out(conf, err("expected_dict"), FALSE, "dict")
        ELSE
          LET conf1 == IF ~HasKey(conf, comp_name)
                          \/ IsNone(dict_get(conf, comp_name, NoneV))
                       THEN dict_set(conf, comp_name, Dict(<<>>))
                       ELSE conf
          IN
          IF ~IsDict(dict_get(conf1, comp_name, NoneV))
          THEN out(conf1, err("dict_expected_in_main"), FALSE, "dict")
          ELSE
            LET m == recursive_merge(dict_get(conf1, comp_name, NoneV), comp_conf1)
                conf2 == dict_set(conf1, comp_name, m.conf)
            IN
            IF m.raised THEN out(conf2, <<>>, TRUE, "dict")
            ELSE IF ReportsDuplicate(m.duplicate_key)
            THEN out(conf2,
                     <<PkgError(pack_name, comp_name, "duplicate_key", m.duplicate_key)>>,
                     FALSE, "dict")
            ELSE out(conf2, <<>>, FALSE, "dict")

----------------------------------------------------------------------------
\* PACKAGES_CONFIG_SCHEMA

\* Tokens that are not made of the characters a slug is made of
NonSlugTokens == {" ", "-", "Bad"}

\* util.slugify: every other character becomes "_"
slugify(s) == [i \in 1..Len(s) |-> IF s[i] \in NonSlugTokens THEN "_" ELSE s[i]]

\* cv.slug: the name is its own slug
is_slug(s) == slugify(s) = s

\* A schema that checks the package names and not what the packages hold
packages_config_schema_names_only(pk) ==
    /\ IsDict(pk)
    /\ \A i \in 1..Len(pk.items) : is_slug(pk.items[i].k)

\* cv.schema_with_slug_keys(vol.Schema({cv.string: vol.Any(dict, list, None)})):
\* a mapping, every key a slug, every value a mapping of component names
\* (strings in this model) to dict, list or None
packages_config_schema(pk) ==
    /\ IsDict(pk)
    /\ \A i \in 1..Len(pk.items) :
         /\ is_slug(pk.items[i].k)
         /\ IsDict(pk.items[i].val)
         /\ \A j \in 1..Len(pk.items[i].val.items) :
              pk.items[i].val.items[j].val.t \in {"dict", "list", "none"}

\* for pack_name, pack_conf in packages.items():
\*     for comp_name, comp_conf in pack_conf.items():
\* as the sequence of the pairs visited. bad: .items() of something that is
\* no dict (an AttributeError; the schema above rules it out).
Pair(pack_name, comp_name, comp_conf, bad) ==
    [pack_name |-> pack_name, comp_name |-> comp_name, comp_conf |-> comp_conf,
     bad |-> bad]

RECURSIVE package_pairs(_, _)
package_pairs(pk_items, i) ==
    IF i > Len(pk_items) THEN <<>>
    ELSE
      LET p == pk_items[i] IN
      (IF IsDict(p.val)
       THEN [j \in 1..Len(p.val.items) |->
               Pair(p.k, p.val.items[j].k, p.val.items[j].val, FALSE)]
       ELSE <<Pair(p.k, <<>>, NoneV, TRUE)>>)
      \o package_pairs(pk_items, i + 1)

pairs_of(pk) ==
    IF IsDict(pk) THEN package_pairs(pk.items, 1) ELSE <<Pair(<<>>, <<>>, NoneV, TRUE)>>

\* async_get_integration_with_requirements(hass, domain)
integration_for(domain) ==
    IF domain \in DOMAIN integrations THEN integrations[domain] ELSE NotFound

----------------------------------------------------------------------------
\* merge_packages_config

\* line 970: the schema is applied to the whole packages block first
MergeStart ==
    /\ mpc = "start"
    /\ mpc' = IF packages_config_schema(packages) THEN "loop" ELSE "invalid"
    /\ UNCHANGED <<config, packages, integrations, pos, pkg_errors, config0, hist>>
    /\ UNCHANGED <<validateVars, pureVars>>

\* lines 971-1060: one turn of the loop
MergePair ==
    /\ mpc = "loop"
    /\ pos <= Len(pairs_of(packages))
    /\ LET p == pairs_of(packages)[pos]
           r == IF p.bad
                THEN [config |-> config, errors |-> <<>>, raised |-> TRUE,
                      policy |-> "raise"]
                ELSE merge_component(config, p.pack_name, p.comp_name, p.comp_conf,
                                     integration_for(partition_head(p.comp_name)))
       IN /\ config' = r.config
          /\ pkg_errors' = pkg_errors \o r.errors
          /\ mpc' = IF r.raised THEN "raised" ELSE "loop"
          /\ pos' = pos + 1
          /\ hist' = Append(hist, [pair |-> p, before |-> config, after |-> r.config,
                                   errors |-> r.errors, raised |-> r.raised,
                                   policy |-> r.policy])
    /\ UNCHANGED <<packages, integrations, config0>>
    /\ UNCHANGED <<validateVars, pureVars>>

\* line 1062
MergeReturn ==
    /\ mpc = "loop"
    /\ pos > Len(pairs_of(packages))
    /\ mpc' = "done"
    /\ UNCHANGED <<config, packages, integrations, pos, pkg_errors, config0, hist>>
    /\ UNCHANGED <<validateVars, pureVars>>

NextMerge == MergeStart \/ MergePair \/ MergeReturn

----------------------------------------------------------------------------
\* The inputs of the merge

MaxPackages == 2

kLight == <<"light">>
kLightTwo == <<"light", " ", "two">>
kSensor == <<"sensor">>
kA == <<"a">>
kB == <<"b">>
kC == <<"c">>
kE == <<"e">>
kL == <<"l">>
kM == <<"m">>
kN == <<"n">>
kX == <<"x">>
kY == <<"y">>
kPlatform == <<"platform">>

Platform(name) == Dict(<<Item(kPlatform, Scalar(name))>>)

\* Documents the merge is called on
DocPool ==
    { Dict(<<>>),
      Dict(<<Item(kLight, List(<<Platform("hue")>>)),
             Item(kSensor, Dict(<<Item(kA, Scalar("5")),
                                  Item(kN, Dict(<<Item(kX, Scalar("5"))>>))>>))>>),
      Dict(<<Item(kLight, NoneV), Item(kSensor, NoneV),
             Item(kLightTwo, Platform("zwave"))>>),
      Dict(<<Item(kLight, Scalar("7")), Item(kSensor, List(<<Scalar("1")>>))>>),
      Dict(<<Item(CONF_CORE, Dict(<<Item(kA, Scalar("home"))>>)),
             Item(kSensor, Dict(<<Item(kA, NoneV), Item(kL, List(<<Scalar("1")>>)),
                                  Item(kN, Scalar("5"))>>))>>) }

\* Packages that pass PACKAGES_CONFIG_SCHEMA
PackagePool ==
    { Dict(<<Item(kLight, List(<<Platform("hue")>>))>>),
      Dict(<<Item(kLight, List(<<NoneV, Platform("zwave"), Dict(<<>>)>>)),
             Item(kLightTwo, Platform("hue"))>>),
      Dict(<<Item(kLight, NoneV), Item(kSensor, Dict(<<Item(kA, Scalar("1"))>>))>>),
      Dict(<<Item(kSensor, Dict(<<Item(kB, Scalar("1")), Item(kA, Scalar("2")),
                                  Item(kC, Scalar("3"))>>))>>),
      Dict(<<Item(kSensor, Dict(<<Item(kN, Dict(<<Item(kX, Scalar("1"))>>)),
                                  Item(kM, Dict(<<Item(kY, Scalar("1"))>>))>>))>>),
      Dict(<<Item(kSensor, List(<<Scalar("1")>>)),
             Item(kLight, List(<<Platform("mqtt")>>))>>),
      Dict(<<Item(kSensor, Dict(<<Item(kL, List(<<Scalar("2"), Scalar("0")>>)),
                                  Item(kE, Dict(<<>>))>>))>>),
      Dict(<<Item(CONF_CORE, Dict(<<Item(kA, Scalar("away"))>>)),
             Item(kSensor, Dict(<<Item(kC, Scalar("1"))>>))>>),
      Dict(<<Item(kSensor, Dict(<<Item(kN, Dict(<<Item(kX, Scalar("1"))>>)),
                                  Item(kC, Scalar("2"))>>))>>) }

\* (name, value) items that fail PACKAGES_CONFIG_SCHEMA: a name that is no
\* slug, a package that is no mapping, a component config that is a scalar
InvalidItemPool ==
    { Item(<<"Bad", " ", "name">>, Dict(<<Item(kLight, List(<<Platform("hue")>>))>>)),
      Item(<<"pack_x">>, List(<<Platform("hue")>>)),
      Item(<<"pack_x">>, Dict(<<Item(kLight, Scalar("5"))>>)) }

PackName(i) == <<"pack_", ToString(i)>>

\* Sequences of at most n members of S
RECURSIVE SeqsUpTo(_, _)
SeqsUpTo(S, n) ==
    IF n = 0 THEN {<<>>}
    ELSE LET shorter == SeqsUpTo(S, n - 1)
         IN shorter \cup {Append(q, x) : q \in {r \in shorter : Len(r) = n - 1}, x \in S}

Named(q) == [i \in 1..Len(q) |-> Item(PackName(i), q[i])]

ValidPackages == {Dict(Named(q)) : q \in SeqsUpTo(PackagePool, MaxPackages)}

\* valid packages followed by one invalid item, and a block that is no mapping
InvalidPackages ==
    {Dict(Append(Named(q), bad)) :
        q \in SeqsUpTo(PackagePool, MaxPackages - 1), bad \in InvalidItemPool}
    \cup {List(<<>>)}

\* CONFIG_SCHEMA shapes
Schema(is_schema, top, has_key, default, text) ==
    [present |-> TRUE, is_schema |-> is_schema, top |-> top, has_domain_key |-> has_key,
     default |-> default, text |-> text]

SchemaPool ==
    { NoSchema,
      Schema(FALSE, "dict", TRUE, "undefined", <<"[">>),
      Schema(TRUE, "all_nodict", FALSE, "undefined", <<>>),
      Schema(TRUE, "other", FALSE, "undefined", <<>>),
      Schema(TRUE, "dict", FALSE, "undefined", <<>>),
      Schema(TRUE, "dict", TRUE, "dict", <<"[">>),
      Schema(TRUE, "all_dict", TRUE, "list", <<"{">>),
      Schema(TRUE, "dict", TRUE, "other", <<"[">>),
      Schema(TRUE, "dict", TRUE, "undefined", <<"{", "...", "}">>),
      Schema(TRUE, "dict", TRUE, "undefined", <<"<function", "schema_with_slug_keys", ">">>),
      Schema(TRUE, "all_dict", TRUE, "undefined", <<"[", "...", "]">>),
      Schema(TRUE, "dict", TRUE, "undefined", <<"All(<function ensure_list", "...", ")">>),
      Schema(TRUE, "dict", TRUE, "undefined", <<"<class", "str", ">">>) }

Loaded(cp, hint, ps, cs) == Integration("ok", cp, hint, ps, ps, cs)

ListByPlatformSchema == Loaded("missing", "missing", TRUE, NoSchema)
ListByHint == Loaded("validator", "list", FALSE, NoSchema)
DictBySchema ==
    Loaded("no_validator", "missing", FALSE,
           Schema(TRUE, "dict", TRUE, "undefined", <<"{", "...", "}">>))
DictByDefault == Loaded("missing", "missing", FALSE, NoSchema)
ImportFails == Integration("load_exc", "missing", "missing", FALSE, FALSE, NoSchema)

Domains == {kLight, kSensor, CONF_CORE}

IntegrationsOf(light, sensor) ==
    [d \in Domains |-> IF d = kLight THEN light
                       ELSE IF d = kSensor THEN sensor
                       ELSE DictByDefault]

\* Settings with which the documents and packages above are merged
MergeSettings ==
    { IntegrationsOf(ListByPlatformSchema, DictBySchema),
      IntegrationsOf(ImportFails, DictByDefault),
      IntegrationsOf(ListByHint, NotFound),
      IntegrationsOf(DictByDefault, ListByPlatformSchema) }

\* Every combination of what decides the merge policy, for the domain light
PolicySettings ==
    { IntegrationsOf(Loaded(cp, hint, ps, cs), DictByDefault) :
        cp \in {"missing", "bad_import", "no_validator", "validator"},
        hint \in {"list", "dict", "missing"},
        ps \in BOOLEAN,
        cs \in SchemaPool }

PolicyPackagePool ==
    { Dict(<<Item(kLight, Dict(<<Item(kA, Scalar("1"))>>))>>),
      Dict(<<Item(kLight, List(<<Platform("hue")>>))>>) }

PolicyPackages == {Dict(Named(q)) : q \in SeqsUpTo(PolicyPackagePool, MaxPackages)}

PolicyDocPool == {Dict(<<>>), Dict(<<Item(kLight, Dict(<<Item(kB, Scalar("5"))>>))>>)}

Procs == {1, 2}

\* No call of async_process_component_config is under way
ValidationIdle ==
    /\ vdom = [p \in Procs |-> kLight]
    /\ vpc = [p \in Procs |-> "idle"]
    /\ vidx = [p \in Procs |-> 1]
    /\ vplatforms = [p \in Procs |-> <<>>]
    /\ vexc = [p \in Procs |-> <<>>]
    /\ vcalls = [p \in Procs |-> <<>>]
    /\ vresult = [p \in Procs |-> NotReturned]
    /\ vhandle = [p \in Procs |-> NotHandled]

\* None of the module's functions is being called on its own
NoCall == [fn |-> "none"]

PureIdle == fcall = NoCall /\ fret = NoCall

InitMerge ==
    /\ \/ /\ config \in DocPool
          /\ packages \in ValidPackages \cup InvalidPackages
          /\ integrations \in MergeSettings
       \/ /\ config \in PolicyDocPool
          /\ packages \in PolicyPackages
          /\ integrations \in PolicySettings
    /\ mpc = "start"
    /\ pos = 1
    /\ pkg_errors = <<>>
    /\ config0 = config
    /\ hist = <<>>
    /\ ValidationIdle
    /\ PureIdle

SpecMerge == InitMerge /\ [][NextMerge]_vars

----------------------------------------------------------------------------
\* async_process_component_config

ConfigExceptionInfo(exception, translation_key, platform_name, conf, link) ==
    [exception |-> exception, translation_key |-> translation_key,
     platform_name |-> platform_name, config |-> conf, integration_link |-> link]

IntegrationConfigInfo(conf, exception_info_list) ==
    [returned |-> TRUE, config |-> conf, exception_info_list |-> exception_info_list]

\* integration.documentation
documentation(domain) == <<"docs/">> \o domain

\* What a validator or schema returns for a value it accepts: the value,
\* normalised; the model marks it with the validator that produced it
validated(value, by) == dict_set(value, <<"validated_by">>, Scalar(by))

\* What the schemas do with a platform entry is written in the entry: "base"
\* for the component's schema, "own" for the schema of the platform it names;
\* an entry that is no mapping fails the component's schema
schema_result(p_config, which) ==
    IF ~IsDict(p_config) THEN "invalid"
    ELSE dict_get(p_config, <<which>>, Scalar("ok")).v

\* helpers.extract_domain_configs: the keys matching ^domain(| .*)$
extract_domain_configs(conf, domain) ==
    LET matches(key) ==
            /\ Len(key) >= Len(domain)
            /\ SubSeq(key, 1, Len(domain)) = domain
            /\ \/ Len(key) = Len(domain)
               \/ key[Len(domain) + 1] = " "
    IN {i \in 1..Len(conf.items) : matches(conf.items[i].k)}

\* helpers.config_per_platform: the (platform, item) pairs of the entries
\* addressed to the domain, in the order of the document
RECURSIVE per_platform_from(_, _, _)
per_platform_from(conf, domain, i) ==
    IF i > Len(conf.items) THEN <<>>
    ELSE
      LET platform_config == conf.items[i].val
          listed == IF IsList(platform_config) THEN platform_config.items
                    ELSE <<platform_config>>
          entry(item) == [p_name |-> IF IsDict(item) THEN dict_get(item, kPlatform, NoneV)
                                     ELSE NoneV,
                          p_config |-> item]
      IN (IF i \in extract_domain_configs(conf, domain) /\ Truthy(platform_config)
          THEN [j \in 1..Len(listed) |-> entry(listed[j])]
          ELSE <<>>)
         \o per_platform_from(conf, domain, i + 1)

config_per_platform(conf, domain) == per_platform_from(conf, domain, 1)

\* A removal of the key that is the domain's name only
config_without_domain_exact_key(conf, domain) ==
    Dict(SelectSeq(conf.items, LAMBDA it : it.k # domain))

\* config_without_domain, lines 1427-1431
config_without_domain(conf, domain) ==
    LET keep == {i \in 1..Len(conf.items) : i \notin extract_domain_configs(conf, domain)}
        nth(n) == CHOOSE i \in keep : Cardinality({j \in keep : j < i}) = n - 1
    IN Dict([n \in 1..Cardinality(keep) |-> conf.items[nth(n)]])

\* str(p_name)
str(p_name) == IF IsNone(p_name) THEN <<"None">> ELSE <<p_name.v>>

\* A load step that hands the unvalidated config on with the failure
component_import_failure_keeps_config(domain, conf) ==
    IntegrationConfigInfo(conf,
        <<ConfigExceptionInfo("ImportError", "component_import_err", domain, conf,
                              documentation(domain))>>)

\* lines 1240-1251: get_component raised
component_import_failure(domain, conf) ==
    IntegrationConfigInfo(NoneV,
        <<ConfigExceptionInfo("ImportError", "component_import_err", domain, conf,
                              documentation(domain))>>)

\* A probe that files the import error of the config platform under the
\* platforms of the entries
config_platform_import_failure_as_platform(domain, conf) ==
    IntegrationConfigInfo(NoneV,
        <<ConfigExceptionInfo("ImportError", "platform_component_load_exc", domain, conf,
                              documentation(domain))>>)

\* lines 1257-1270: importing the config platform raised an ImportError that
\* does not name the config module itself
config_platform_import_failure(domain, conf) ==
    IntegrationConfigInfo(NoneV,
        <<ConfigExceptionInfo("ImportError", "config_platform_import_err", domain, conf,
                              documentation(domain))>>)

\* A custom validator whose HomeAssistantError counts as an unknown error
custom_validator_outcome_invalid_only(domain, conf, result) ==
    IF result = "ok" THEN IntegrationConfigInfo(validated(conf, "async_validate_config"), <<>>)
    ELSE IntegrationConfigInfo(NoneV,
           <<ConfigExceptionInfo(result,
                                 IF result = "invalid" THEN "config_validation_err"
                                 ELSE "config_validator_unknown_err",
                                 domain, conf, documentation(domain))>>)

\* lines 1272-1298: the outcome of the call of async_validate_config
custom_validator_outcome(domain, conf, result) ==
    IF result = "ok" THEN IntegrationConfigInfo(validated(conf, "async_validate_config"), <<>>)
    ELSE IntegrationConfigInfo(NoneV,
           <<ConfigExceptionInfo(result,
                                 IF result \in {"invalid", "ha_error"}
                                 THEN "config_validation_err"
                                 ELSE "config_validator_unknown_err",
                                 domain, conf, documentation(domain))>>)

\* A whole-schema step that keeps the config when the schema fails
config_schema_outcome_keeps_config(domain, conf, result) ==
    IF result = "ok" THEN IntegrationConfigInfo(validated(conf, "CONFIG_SCHEMA"), <<>>)
    ELSE IntegrationConfigInfo(conf,
           <<ConfigExceptionInfo(result,
                                 IF result = "invalid" THEN "config_validation_err"
                                 ELSE "config_schema_unknown_err",
                                 domain, conf, documentation(domain))>>)

\* lines 1301-1323: the outcome of component.CONFIG_SCHEMA(config)
config_schema_outcome(domain, conf, result) ==
    IF result = "ok" THEN IntegrationConfigInfo(validated(conf, "CONFIG_SCHEMA"), <<>>)
    ELSE IntegrationConfigInfo(NoneV,
           <<ConfigExceptionInfo(result,
                                 IF result = "invalid" THEN "config_validation_err"
                                 ELSE "config_schema_unknown_err",
                                 domain, conf, documentation(domain))>>)

\* A lookup that never answers None
component_platform_schema_never_none(integ) ==
    IF integ.platform_schema_base THEN "PLATFORM_SCHEMA_BASE" ELSE "PLATFORM_SCHEMA"

\* lines 1325-1327: PLATFORM_SCHEMA_BASE, else PLATFORM_SCHEMA, else None
component_platform_schema(integ) ==
    IF integ.platform_schema_base THEN "PLATFORM_SCHEMA_BASE"
    ELSE IF integ.platform_schema THEN "PLATFORM_SCHEMA"
    ELSE "none"

EntryOutcome(ok, p_validated, failures, called) ==
    [ok |-> ok, p_validated |-> p_validated, failures |-> failures, called |-> called]

\* A component schema step that files every failure as a validation error
validate_entry_all_invalid(domain, entry, conf, schema) ==
    LET result == schema_result(entry.p_config, "base") IN
    IF result = "ok"
    THEN EntryOutcome(TRUE, validated(entry.p_config, schema), <<>>, <<schema>>)
    ELSE EntryOutcome(FALSE, NoneV,
           <<ConfigExceptionInfo(result, "platform_config_validation_err", domain,
                                 entry.p_config, documentation(domain))>>, <<schema>>)

\* A component-schema step that drops an entry on an exception that is no
\* vol.Invalid without recording the failure
validate_entry_drops_silently(domain, entry, conf, schema) ==
    LET result == schema_result(entry.p_config, "base") IN
    IF result = "ok"
    THEN EntryOutcome(TRUE, validated(entry.p_config, schema), <<>>, <<schema>>)
    ELSE IF result = "invalid"
    THEN EntryOutcome(FALSE, NoneV,
           <<ConfigExceptionInfo(result, "platform_config_validation_err", domain,
                                 entry.p_config, documentation(domain))>>, <<schema>>)
    ELSE EntryOutcome(FALSE, NoneV, <<>>, <<schema>>)

\* lines 1334-1357: the component's schema applied to one entry
validate_entry(domain, entry, conf, schema) ==
    LET result == schema_result(entry.p_config, "base") IN
    IF result = "ok"
    THEN EntryOutcome(TRUE, validated(entry.p_config, schema), <<>>, <<schema>>)
    ELSE IF result = "invalid"
    THEN EntryOutcome(FALSE, NoneV,
           <<ConfigExceptionInfo(result, "platform_config_validation_err", domain,
                                 entry.p_config, documentation(domain))>>, <<schema>>)
    ELSE EntryOutcome(FALSE, NoneV,
           <<ConfigExceptionInfo(result, "platform_schema_validator_err",
                                 str(entry.p_name), conf, documentation(domain))>>,
           <<schema>>)

\* A platform step that keeps an entry its platform's schema rejects
validate_platform_keeps_failed(domain, entry, p_validated, p_integration) ==
    LET platform_name == domain \o <<".">> \o str(entry.p_name)
        result == schema_result(entry.p_config, "own")
    IN
    IF p_integration.load # "ok" \/ p_integration.platform = "load_exc"
    THEN EntryOutcome(FALSE, NoneV,
           <<ConfigExceptionInfo("load", "platform_component_load_err", platform_name,
                                 entry.p_config, documentation(domain))>>, <<>>)
    ELSE IF p_integration.platform = "no_schema"
    THEN EntryOutcome(TRUE, p_validated, <<>>, <<>>)
    ELSE EntryOutcome(TRUE, validated(entry.p_config, "platform.PLATFORM_SCHEMA"),
                      IF result = "ok" THEN <<>>
                      ELSE <<ConfigExceptionInfo(result, "platform_config_validation_err",
                                                 platform_name, entry.p_config,
                                                 documentation(str(entry.p_name)))>>,
                      <<"platform.PLATFORM_SCHEMA">>)

\* lines 1366-1417: the platform an entry names is resolved and its schema,
\* when it has one, applied to the entry
validate_platform(domain, entry, p_validated, p_integration) ==
    LET platform_name == domain \o <<".">> \o str(entry.p_name)
        result == schema_result(entry.p_config, "own")
    IN
    IF p_integration.load # "ok"
    THEN EntryOutcome(FALSE, NoneV,
           <<ConfigExceptionInfo(IF p_integration.load = "req_exc"
                                 THEN "RequirementsNotFound"
                                 ELSE "IntegrationNotFound",
                                 "platform_component_load_err",
                                 platform_name, entry.p_config, documentation(domain))>>,
           <<>>)
    ELSE IF p_integration.platform = "load_exc"
    THEN EntryOutcome(FALSE, NoneV,
           <<ConfigExceptionInfo("ImportError", "platform_component_load_exc",
                                 platform_name, entry.p_config, documentation(domain))>>,
           <<>>)
    ELSE IF p_integration.platform = "no_schema"
    THEN EntryOutcome(TRUE, p_validated, <<>>, <<>>)
    ELSE IF result = "ok"
    THEN EntryOutcome(TRUE, validated(entry.p_config, "platform.PLATFORM_SCHEMA"), <<>>,
                      <<"platform.PLATFORM_SCHEMA">>)
    ELSE IF result = "invalid"
    THEN EntryOutcome(FALSE, NoneV,
           <<ConfigExceptionInfo(result, "platform_config_validation_err", platform_name,
                                 entry.p_config, documentation(str(entry.p_name)))>>,
           <<"platform.PLATFORM_SCHEMA">>)
    ELSE EntryOutcome(FALSE, NoneV,
           <<ConfigExceptionInfo(result, "platform_schema_validator_err",
                                 str(entry.p_name), entry.p_config,
                                 documentation(str(entry.p_name)))>>,
           <<"platform.PLATFORM_SCHEMA">>)

\* lines 1419-1424: the document returned by the per-platform path
platform_config_result(conf, domain, platforms, exceptions) ==
    IntegrationConfigInfo(dict_set(config_without_domain(conf, domain), domain,
                                   List(platforms)),
                          exceptions)

Returns(p, info) ==
    /\ vresult' = [vresult EXCEPT ![p] = info]
    /\ vexc' = [vexc EXCEPT ![p] = info.exception_info_list]
    /\ vpc' = [vpc EXCEPT ![p] = "done"]

\* lines 1236-1251: integration.get_component()
VLoad(p) ==
    /\ vpc[p] = "load"
    /\ vcalls' = [vcalls EXCEPT ![p] = Append(@, "get_component")]
    /\ IF integration_for(vdom[p]).load # "ok"
       THEN Returns(p, component_import_failure(vdom[p], config))
       ELSE /\ vpc' = [vpc EXCEPT ![p] = "probe"]
            /\ UNCHANGED <<vresult, vexc>>
    /\ UNCHANGED <<config, integrations, config0, mergeVars, pureVars, vhandle, vdom, vidx, vplatforms>>

\* lines 1253-1274: integration.get_platform("config") and the test for
\* async_validate_config
VProbe(p) ==
    /\ vpc[p] = "probe"
    /\ vcalls' = [vcalls EXCEPT ![p] = Append(@, "get_platform")]
    /\ LET cp == integration_for(vdom[p]).config_platform IN
       IF cp = "bad_import"
       THEN Returns(p, config_platform_import_failure(vdom[p], config))
       ELSE /\ vpc' = [vpc EXCEPT ![p] = IF cp = "validator" THEN "validator"
                                         ELSE "schema"]
            /\ UNCHANGED <<vresult, vexc>>
    /\ UNCHANGED <<config, integrations, config0, mergeVars, pureVars, vhandle, vdom, vidx, vplatforms>>

\* lines 1275-1298: await config_validator.async_validate_config(hass, config)
VValidator(p) ==
    /\ vpc[p] = "validator"
    /\ vcalls' = [vcalls EXCEPT ![p] = Append(@, "async_validate_config")]
    /\ Returns(p, custom_validator_outcome(vdom[p], config,
                                           integration_for(vdom[p]).validator_result))
    /\ UNCHANGED <<config, integrations, config0, mergeVars, pureVars, vhandle, vdom, vidx, vplatforms>>

\* lines 1300-1332: CONFIG_SCHEMA when the component has one, else the
\* passthrough or the start of the per-platform loop
VSchema(p) ==
    /\ vpc[p] = "schema"
    /\ LET integ == integration_for(vdom[p]) IN
       IF integ.config_schema.present
       THEN /\ vcalls' = [vcalls EXCEPT ![p] = Append(@, "CONFIG_SCHEMA")]
            /\ Returns(p, config_schema_outcome(vdom[p], config, integ.schema_result))
            /\ UNCHANGED <<vidx, vplatforms>>
       ELSE IF component_platform_schema(integ) = "none"
       THEN /\ Returns(p, IntegrationConfigInfo(config, <<>>))
            /\ UNCHANGED <<vcalls, vidx, vplatforms>>
       ELSE /\ vpc' = [vpc EXCEPT ![p] = "entries"]
            /\ vidx' = [vidx EXCEPT ![p] = 1]
            /\ vplatforms' = [vplatforms EXCEPT ![p] = <<>>]
            /\ UNCHANGED <<vcalls, vresult, vexc>>
    /\ UNCHANGED <<config, integrations, config0, mergeVars, pureVars, vhandle, vdom>>

\* lines 1333-1367: the next entry, up to the platform it names being resolved
VEntry(p) ==
    /\ vpc[p] = "entries"
    /\ vidx[p] <= Len(config_per_platform(config, vdom[p]))
    /\ LET entry == config_per_platform(config, vdom[p])[vidx[p]]
           out == validate_entry(vdom[p], entry, config,
                                 component_platform_schema(integration_for(vdom[p])))
       IN /\ vcalls' = [vcalls EXCEPT ![p] = @ \o out.called]
          /\ vexc' = [vexc EXCEPT ![p] = @ \o out.failures]
          /\ IF ~out.ok
             THEN /\ vidx' = [vidx EXCEPT ![p] = @ + 1]
                  /\ UNCHANGED <<vplatforms, vpc>>
             ELSE IF IsNone(entry.p_name)
             THEN /\ vplatforms' = [vplatforms EXCEPT ![p] = Append(@, out.p_validated)]
                  /\ vidx' = [vidx EXCEPT ![p] = @ + 1]
                  /\ UNCHANGED vpc
             ELSE /\ vpc' = [vpc EXCEPT ![p] = "platform"]
                  /\ UNCHANGED <<vidx, vplatforms>>
    /\ UNCHANGED <<config, integrations, config0, mergeVars, pureVars, vhandle, vdom, vresult>>

\* lines 1367-1417: the platform is resolved, the entry validated against it
VPlatform(p) ==
    /\ vpc[p] = "platform"
    /\ LET entry == config_per_platform(config, vdom[p])[vidx[p]]
           schema == component_platform_schema(integration_for(vdom[p]))
           out == validate_platform(vdom[p], entry, validated(entry.p_config, schema),
                                    integration_for(str(entry.p_name)))
       IN /\ vcalls' = [vcalls EXCEPT ![p] = @ \o out.called]
          /\ vexc' = [vexc EXCEPT ![p] = @ \o out.failures]
          /\ vplatforms' = [vplatforms EXCEPT ![p] =
                              IF out.ok THEN Append(@, out.p_validated) ELSE @]
    /\ vidx' = [vidx EXCEPT ![p] = @ + 1]
    /\ vpc' = [vpc EXCEPT ![p] = "entries"]
    /\ UNCHANGED <<config, integrations, config0, mergeVars, pureVars, vhandle, vdom, vresult>>

\* A result written into the document the caller passed
caller_document_written_in_place(conf, domain, platforms) ==
    dict_set(config_without_domain(conf, domain), domain, List(platforms))

\* lines 1421-1422: the name config is rebound to the copy config_without_domain
\* returns and the item is set in that copy; the document the caller passed is
\* the object it was
caller_document(conf, domain, platforms) == conf

\* lines 1419-1424: the loop is over
VReturn(p) ==
    /\ vpc[p] = "entries"
    /\ vidx[p] > Len(config_per_platform(config, vdom[p]))
    /\ vresult' = [vresult EXCEPT ![p] =
                     platform_config_result(config, vdom[p], vplatforms[p], vexc[p])]
    /\ config' = caller_document(config, vdom[p], vplatforms[p])
    /\ vpc' = [vpc EXCEPT ![p] = "done"]
    /\ UNCHANGED <<integrations, config0, mergeVars, pureVars, vhandle, vdom, vidx,
                   vplatforms, vexc, vcalls>>

\* lines 666-670 and 743-744: the documentation suffix of a message
docs_suffix(domain, link) ==
    IF domain # CONF_CORE /\ link # <<>>
    THEN <<", please check the docs at ">> \o link
    ELSE <<>>

\* format_schema_error, lines 648-698 and 750-758, for an error without
\* sub-errors on a config that carries no annotation
format_schema_error(ex, domain, link) ==
    <<"Invalid config for '">> \o domain \o <<"': ", ex, " '", "', got ">>
        \o docs_suffix(domain, link)

\* format_homeassistant_error, lines 729-746, on a config without annotation
format_homeassistant_error(ex, domain, link) ==
    <<"Invalid config for '">> \o domain \o <<"': ", ex>> \o docs_suffix(domain, link)

\* isinstance(exception, vol.Invalid)
is_vol_invalid(exception) == exception = "invalid"

LogPref(log_message, show_stack_trace, placeholders) ==
    [log_message |-> log_message, show_stack_trace |-> show_stack_trace,
     placeholders |-> placeholders]

\* _get_log_message_and_stack_print_pref, lines 1066-1141
get_log_message_and_stack_print_pref(domain, platform_exception) ==
    LET exception == platform_exception.exception
        platform_name == platform_exception.platform_name
        link == platform_exception.integration_link
        key == platform_exception.translation_key
        placeholders == <<Item(<<"domain">>, domain), Item(<<"error">>, <<exception>>)>>
    IN CASE key = "component_import_err" ->
              LogPref(<<"Unable to import ">> \o domain \o <<": ", exception>>, FALSE,
                      placeholders)
         [] key = "config_platform_import_err" ->
              LogPref(<<"Error importing config platform ">> \o domain
                          \o <<": ", exception>>, FALSE, placeholders)
         [] key = "config_validator_unknown_err" ->
              LogPref(<<"Unknown error calling ">> \o domain \o <<" config validator">>,
                      TRUE, placeholders)
         [] key = "config_schema_unknown_err" ->
              LogPref(<<"Unknown error calling ">> \o domain \o <<" CONFIG_SCHEMA">>,
                      TRUE, placeholders)
         [] key = "platform_validator_unknown_err" ->
              LogPref(<<"Unknown error validating ">> \o platform_name
                          \o <<" platform config with ">> \o domain
                          \o <<" component platform schema">>, TRUE, placeholders)
         [] key = "platform_component_load_err" ->
              LogPref(<<"Platform error: ">> \o domain \o <<" - ", exception>>, FALSE,
                      placeholders)
         [] key = "platform_component_load_exc" ->
              LogPref(<<"Platform error: ">> \o domain \o <<" - ", exception>>, TRUE,
                      placeholders)
         [] key = "platform_schema_validator_err" ->
              LogPref(<<"Unknown error validating config for ">> \o platform_name
                          \o <<" platform for ">> \o domain
                          \o <<" component with PLATFORM_SCHEMA">>, TRUE, placeholders)
         [] OTHER ->
              IF is_vol_invalid(exception)
              THEN LogPref(format_schema_error(exception, platform_name, link), FALSE,
                           placeholders)
              ELSE LogPref(format_homeassistant_error(exception, platform_name, link),
                           TRUE, placeholders)

\* A raised error that always carries the category of the last failure
raised_error_of_last_failure(domain, config_exception_info, last) ==
    ConfigValidationError(
        last.log_message,
        [i \in 1..Len(config_exception_info) |-> config_exception_info[i].exception],
        config_exception_info[Len(config_exception_info)].translation_key,
        last.placeholders)

\* lines 1203-1222: the ConfigValidationError raised for a non-empty list of
\* failures; last is what the loop left for the last of them
raised_error(domain, config_exception_info, last) ==
    LET errors == <<ToString(Len(config_exception_info))>> IN
    ConfigValidationError(
        IF Len(config_exception_info) = 1 THEN last.log_message
        ELSE <<"Failed to process component config for integration ">> \o domain
                 \o <<" due to multiple errors (">> \o errors
                 \o <<"), check the logs for more information.">>,
        [i \in 1..Len(config_exception_info) |-> config_exception_info[i].exception],
        IF Len(config_exception_info) = 1
        THEN config_exception_info[Len(config_exception_info)].translation_key
        ELSE "integration_config_error",
        IF Len(config_exception_info) = 1 THEN last.placeholders
        ELSE <<Item(<<"domain">>, domain), Item(<<"errors">>, errors)>>)

\* A handler that logs only when it is going to raise
handle_component_errors_logs_when_raising(info, domain, raise_on_failure) ==
    LET list == info.exception_info_list
        pref(i) == get_log_message_and_stack_print_pref(domain, list[i])
        logged == [i \in 1..Len(list) |->
                     [message |-> pref(i).log_message,
                      exc_info |-> IF pref(i).show_stack_trace THEN list[i].exception
                                   ELSE "None"]]
    IN IF Len(list) = 0 \/ ~raise_on_failure
       THEN HandleResult(raise_on_failure, <<>>, FALSE, NoError, info.config)
       ELSE HandleResult(raise_on_failure, logged, TRUE,
                         raised_error(domain, list, pref(Len(list))), NoneV)

\* async_handle_component_errors, lines 1166-1222
handle_component_errors(info, domain, raise_on_failure) ==
    LET list == info.exception_info_list
        pref(i) == get_log_message_and_stack_print_pref(domain, list[i])
        logged == [i \in 1..Len(list) |->
                     [message |-> pref(i).log_message,
                      exc_info |-> IF pref(i).show_stack_trace THEN list[i].exception
                                   ELSE "None"]]
    IN IF Len(list) = 0
       THEN HandleResult(raise_on_failure, <<>>, FALSE, NoError, info.config)
       ELSE IF ~raise_on_failure
       THEN HandleResult(raise_on_failure, logged, FALSE, NoError, info.config)
       ELSE HandleResult(raise_on_failure, logged, TRUE,
                         raised_error(domain, list, pref(Len(list))), NoneV)

\* async_process_component_and_handle_errors, lines 1144-1163: the outcome is
\* handed to async_handle_component_errors
VHandle(p) ==
    /\ vpc[p] = "done"
    /\ \E raise_on_failure \in BOOLEAN :
         vhandle' = [vhandle EXCEPT ![p] =
                       handle_component_errors(vresult[p], vdom[p], raise_on_failure)]
    /\ vpc' = [vpc EXCEPT ![p] = "handled"]
    /\ UNCHANGED <<config, integrations, config0, mergeVars, pureVars, vdom, vidx,
                   vplatforms, vexc, vcalls, vresult>>

VNext(p) ==
    \/ VLoad(p) \/ VProbe(p) \/ VValidator(p) \/ VSchema(p)
    \/ VEntry(p) \/ VPlatform(p) \/ VReturn(p) \/ VHandle(p)

NextValidate == VNext(1)

\* Inputs of the validation

MaxEntries == 3

kBase == <<"base">>
kOwn == <<"own">>
kHue == <<"hue">>
kZwave == <<"zwave">>
kBroken == <<"broken">>
kNoReq == <<"noreq">>

Marked(name, which, result) ==
    Dict(<<Item(kPlatform, Scalar(name)), Item(which, Scalar(result))>>)

\* Platform entries: accepted, rejected by the platform's schema, naming a
\* platform without a schema, an unknown platform, a platform that fails to
\* import, a platform with missing requirements, naming no platform, rejected by the component's schema, no mapping
EntryPool ==
    { Platform("hue"),
      Marked("hue", kOwn, "invalid"),
      Marked("hue", kOwn, "exception"),
      Platform("zwave"),
      Platform("ghost"),
      Platform("broken"),
      Platform("noreq"),
      Dict(<<Item(kA, Scalar("1"))>>),
      Marked("hue", kBase, "invalid"),
      Marked("hue", kBase, "exception"),
      Dict(<<Item(kBase, Scalar("exception"))>>),
      Scalar("5") }

SensorSection == Dict(<<Item(kA, Scalar("5"))>>)

EntryDocs ==
    { Dict(<<Item(kSensor, SensorSection), Item(kLight, List(q))>>) :
        q \in SeqsUpTo(EntryPool, MaxEntries) }

\* Documents whose entries come from several keys of the domain, from a single
\* mapping, or from no key at all
LabelledDocs ==
    { Dict(<<Item(kLight, Platform("hue")), Item(kSensor, SensorSection),
             Item(kLightTwo, List(<<Platform("zwave"), Marked("hue", kOwn, "invalid")>>))>>),
      Dict(<<Item(kLight, NoneV),
             Item(kLightTwo, List(<<Dict(<<Item(kA, Scalar("1"))>>)>>))>>),
      Dict(<<Item(kSensor, SensorSection)>>),
      Dict(<<Item(kLightTwo, Platform("ghost")), Item(kSensor, SensorSection),
             Item(kLight, List(<<Platform("hue")>>))>>) }

PresentSchema == Schema(TRUE, "dict", TRUE, "undefined", <<"{", "...", "}">>)

ValidatedIntegration(load, cp, vr, cs, sr, ps, psb) ==
    [Integration(load, cp, "missing", ps, psb, cs)
        EXCEPT !.validator_result = vr, !.schema_result = sr]

PlatformIntegration(platform) ==
    [Integration("ok", "missing", "missing", FALSE, FALSE, NoSchema)
        EXCEPT !.platform = platform]

\* The integration of a platform whose requirements cannot be installed
RequirementsMissing ==
    Integration("req_exc", "missing", "missing", FALSE, FALSE, NoSchema)

ValidateDomains == Domains \cup {kHue, kZwave, kBroken, kNoReq}

ValidateSetting(light) ==
    [d \in ValidateDomains |->
        IF d = kLight THEN light
        ELSE IF d = kHue THEN PlatformIntegration("schema")
        ELSE IF d = kZwave THEN PlatformIntegration("no_schema")
        ELSE IF d = kBroken THEN PlatformIntegration("load_exc")
        ELSE IF d = kNoReq THEN RequirementsMissing
        ELSE DictByDefault]

\* Every way the component, its config platform, its validator and its
\* schemas can behave
DispatchSettings ==
    { ValidateSetting(ValidatedIntegration(load, cp, vr, cs, sr, ps, psb)) :
        load \in {"ok", "load_exc"},
        cp \in {"missing", "no_validator", "validator", "bad_import"},
        vr \in {"ok", "invalid", "ha_error", "exception"},
        cs \in {NoSchema, PresentSchema},
        sr \in {"ok", "invalid", "exception"},
        ps \in BOOLEAN, psb \in BOOLEAN }

DispatchDocs ==
    { Dict(<<Item(kSensor, SensorSection),
             Item(kLight, List(<<Platform("hue"), Marked("hue", kOwn, "invalid")>>))>>),
      Dict(<<Item(kSensor, SensorSection)>>) }

\* Components validated entry by entry
PlatformSettings ==
    { ValidateSetting(ValidatedIntegration("ok", "missing", "ok", NoSchema, "ok",
                                           TRUE, FALSE)),
      ValidateSetting(ValidatedIntegration("ok", "no_validator", "ok", NoSchema, "ok",
                                           TRUE, TRUE)) }

InitValidate ==
    /\ \/ /\ config \in DispatchDocs
          /\ integrations \in DispatchSettings
       \/ /\ config \in EntryDocs \cup LabelledDocs
          /\ integrations \in PlatformSettings
    /\ config0 = config
    /\ packages = Dict(<<>>)
    /\ mpc = "done"
    /\ pos = 1
    /\ pkg_errors = <<>>
    /\ hist = <<>>
    /\ vdom = [p \in Procs |-> kLight]
    /\ vpc = [p \in Procs |-> IF p = 1 THEN "load" ELSE "idle"]
    /\ vidx = [p \in Procs |-> 1]
    /\ vplatforms = [p \in Procs |-> <<>>]
    /\ vexc = [p \in Procs |-> <<>>]
    /\ vcalls = [p \in Procs |-> <<>>]
    /\ vresult = [p \in Procs |-> NotReturned]
    /\ vhandle = [p \in Procs |-> NotHandled]
    /\ PureIdle

SpecValidate == InitValidate /\ [][NextValidate]_vars

\* Two domains validated against the same document, the two calls suspended
\* and resumed in any order

NextInterleaved == VNext(1) \/ VNext(2)

\* What the component of a domain can be like: validated entry by entry, by a
\* custom validator that accepts or rejects, by CONFIG_SCHEMA, not at all, or
\* failing to import
ComponentKinds ==
    { ValidatedIntegration("ok", "missing", "ok", NoSchema, "ok", TRUE, FALSE),
      ValidatedIntegration("ok", "validator", "ok", NoSchema, "ok", TRUE, FALSE),
      ValidatedIntegration("ok", "validator", "ha_error", NoSchema, "ok", FALSE, FALSE),
      ValidatedIntegration("ok", "no_validator", "ok", PresentSchema, "invalid", FALSE,
                           TRUE),
      ValidatedIntegration("ok", "missing", "ok", NoSchema, "ok", FALSE, FALSE),
      ValidatedIntegration("load_exc", "missing", "ok", NoSchema, "ok", TRUE, FALSE) }

InterleavedSettings ==
    { [ValidateSetting(light) EXCEPT ![kSensor] = sensor] :
        light \in ComponentKinds, sensor \in ComponentKinds }

SharedDocs ==
    { Dict(<<Item(kLight, List(<<Platform("hue"), Marked("hue", kOwn, "invalid")>>)),
             Item(kSensor, List(<<Platform("zwave"), Platform("ghost")>>))>>),
      Dict(<<Item(kLight, Platform("hue")),
             Item(kSensor, List(<<Dict(<<Item(kA, Scalar("1"))>>),
                                  Marked("hue", kBase, "exception")>>)),
             Item(kLightTwo, List(<<Platform("broken")>>))>>),
      Dict(<<Item(kSensor, Platform("hue"))>>) }

InitInterleaved ==
    /\ config \in SharedDocs
    /\ integrations \in InterleavedSettings
    /\ config0 = config
    /\ packages = Dict(<<>>)
    /\ mpc = "done"
    /\ pos = 1
    /\ pkg_errors = <<>>
    /\ hist = <<>>
    /\ vdom = [p \in Procs |-> IF p = 1 THEN kLight ELSE kSensor]
    /\ vpc = [p \in Procs |-> "load"]
    /\ vidx = [p \in Procs |-> 1]
    /\ vplatforms = [p \in Procs |-> <<>>]
    /\ vexc = [p \in Procs |-> <<>>]
    /\ vcalls = [p \in Procs |-> <<>>]
    /\ vresult = [p \in Procs |-> NotReturned]
    /\ vhandle = [p \in Procs |-> NotHandled]
    /\ PureIdle

SpecInterleaved == InitInterleaved /\ [][NextInterleaved]_vars

----------------------------------------------------------------------------
\* find_annotation

\* A node of an annotated document: a value with the (__config_file__,
\* __line__) the parser attached to it, NoTag when it has none.  A key of a
\* mapping carries a tag of its own.
NoTag == [file |-> "", line |-> ""]
Tag(line) == [file |-> "/config/configuration.yaml", line |-> line]
ANone == [t |-> "none", tag |-> NoTag]
AScalar(v, tag) == [t |-> "scalar", v |-> v, tag |-> tag]
ADict(items, tag) == [t |-> "dict", items |-> items, tag |-> tag]
AList(items, tag) == [t |-> "list", items |-> items, tag |-> tag]
AItem(k, ktag, val) == [k |-> k, ktag |-> ktag, val |-> val]

\* The segments of a path: a key of a mapping or an index of a sequence
Key(k) == [seg |-> "key", k |-> k]
Index(i) == [seg |-> "index", i |-> i]
NoTail == [seg |-> "none"]

\* _get_annotation, lines 572-576
get_annotation(item) == item.tag

\* operator.getitem(data, segment); raised stands for KeyError, IndexError and
\* TypeError.  A str indexed by a number in its range gives a new str; the
\* scalars of the documents are strings of one character.
getitem(data, segment) ==
    LET fail == [raised |-> TRUE, value |-> ANone]
        ok(v) == [raised |-> FALSE, value |-> v]
    IN IF IsDict(data)
       THEN (IF segment.seg = "key"
                /\ \E i \in 1..Len(data.items) : data.items[i].k = segment.k
             THEN ok(data.items[CHOOSE i \in 1..Len(data.items) :
                                  data.items[i].k = segment.k].val)
             ELSE fail)
       ELSE IF IsList(data)
       THEN (IF segment.seg = "index" /\ segment.i < Len(data.items)
             THEN ok(data.items[segment.i + 1])
             ELSE fail)
       ELSE IF IsScalar(data)
       THEN (IF segment.seg = "index" /\ segment.i = 0
             THEN ok(AScalar(data.v, NoTag))
             ELSE fail)
       ELSE fail

\* _get_by_path, lines 579-587: reduce(operator.getitem, items, data), None
\* when one of the steps raises
RECURSIVE get_by_path(_, _)
get_by_path(data, items) ==
    IF items = <<>> THEN data
    ELSE LET step == getitem(data, Head(items)) IN
         IF step.raised THEN ANone ELSE get_by_path(step.value, Tail(items))

\* path[:-1] and path[-1]
Front(path) == SubSeq(path, 1, Len(path) - 1)
Last(path) == path[Len(path)]

\* A scan that takes the tag of the first key, whatever the key looked for
find_annotation_for_key_first(item, tail) ==
    IF IsDict(item) /\ Len(item.items) > 0 THEN item.items[1].ktag ELSE NoTag

\* find_annotation_for_key, lines 600-608: the tag of the key equal to tail.
\* The elements of a sequence are never equal to a tagged key.
find_annotation_for_key(item, tail) ==
    IF IsDict(item) /\ tail.seg = "key"
       /\ \E i \in 1..Len(item.items) : item.items[i].k = tail.k
    THEN item.items[CHOOSE i \in 1..Len(item.items) : item.items[i].k = tail.k].ktag
    ELSE NoTag

\* find_annotation_rec, lines 610-638, with the number of calls made and the
\* path list as the call leaves it (path.pop() shortens the list it is handed)
RECURSIVE find_annotation_rec(_, _, _)
find_annotation_rec(conf, path, tail) ==
    LET item == get_by_path(conf, path)
        tail_annotation == IF IsDict(item) /\ tail # NoTail
                           THEN find_annotation_for_key(item, tail)
                           ELSE NoTag
        key_annotation == IF (IsDict(item) \/ IsList(item)) /\ path # <<>>
                          THEN find_annotation_for_key(get_by_path(conf, Front(path)),
                                                       Last(path))
                          ELSE NoTag
        found(a) == [annotation |-> a, steps |-> 1, path |-> path]
    IN IF tail_annotation # NoTag THEN found(tail_annotation)
       ELSE IF key_annotation # NoTag THEN found(key_annotation)
       ELSE IF get_annotation(item) # NoTag THEN found(get_annotation(item))
       ELSE IF path = <<>> THEN found(NoTag)
       ELSE LET rest == find_annotation_rec(conf, Front(path), Last(path)) IN
            [annotation |-> IF rest.annotation # NoTag THEN rest.annotation
                            ELSE get_annotation(item),
             steps |-> rest.steps + 1,
             path |-> rest.path]

\* A lookup that tries the addressed node's own tag before the key's
find_annotation_node_first(conf, path) ==
    LET own == get_annotation(get_by_path(conf, path))
        looked == find_annotation_rec(conf, path, NoTail)
    IN [annotation |-> IF own # NoTag THEN own ELSE looked.annotation,
        steps |-> looked.steps,
        config |-> conf,
        path |-> path]

\* A lookup that walks the caller's list instead of a copy of it
find_annotation_on_the_callers_list(conf, path) ==
    LET looked == find_annotation_rec(conf, path, NoTail)
    IN [annotation |-> looked.annotation,
        steps |-> looked.steps,
        config |-> conf,
        path |-> looked.path]

\* find_annotation, lines 590-640: the lookup walks list(path), a copy, and
\* only reads the document; config and path are the caller's objects as the
\* call leaves them
find_annotation(conf, path) ==
    LET copy == path
        looked == find_annotation_rec(conf, copy, NoTail)
    IN [annotation |-> looked.annotation,
        steps |-> looked.steps,
        config |-> conf,
        path |-> path]

FindAnnotation ==
    /\ fcall.fn = "find_annotation"
    /\ fret = NoCall
    /\ fret' = [fn |-> "find_annotation",
                annotation |-> find_annotation(fcall.config, fcall.path).annotation,
                steps |-> find_annotation(fcall.config, fcall.path).steps,
                config |-> find_annotation(fcall.config, fcall.path).config,
                path |-> find_annotation(fcall.config, fcall.path).path]
    /\ UNCHANGED <<config, integrations, config0, mergeVars, validateVars, fcall>>

NextFindAnnotation == FindAnnotation

\* Annotated documents: one shape, the core section with a package and a
\* scalar section beside it, with every choice of the keys and nodes that the
\* parser tagged
kPackages == <<"packages">>
kDemo == <<"demo">>

TagOrNot(line) == {NoTag, Tag(line)}

AnnotatedDoc(k1, k2, k3, k4, k5, n0, n1, n2, n3, n4, n5) ==
    ADict(<<
        AItem(CONF_CORE, k1,
              ADict(<<AItem(kPackages, NoTag,
                            ADict(<<AItem(kDemo, k2,
                                ADict(<<AItem(kLight, k5,
                                    AList(<<ADict(<<AItem(kPlatform, k4,
                                                          AScalar("h", n4))>>, n3)>>,
                                          n5))>>,
                                      NoTag))>>,
                                  NoTag))>>,
                   n1)),
        AItem(kSensor, k3, AScalar("5", n2))>>, n0)

AnnotatedDocs ==
    { AnnotatedDoc(k1, k2, k3, k4, k5, n0, n1, n2, n3, n4, n5) :
        k1 \in TagOrNot("1"), k2 \in TagOrNot("3"), k3 \in TagOrNot("9"),
        k4 \in TagOrNot("7"), k5 \in TagOrNot("4"), n0 \in TagOrNot("0"),
        n1 \in TagOrNot("2"), n2 \in TagOrNot("10"), n3 \in TagOrNot("6"),
        n4 \in TagOrNot("8"), n5 \in TagOrNot("5") }

PathToPlatform ==
    <<Key(CONF_CORE), Key(kPackages), Key(kDemo), Key(kLight), Index(0), Key(kPlatform)>>

\* Paths into the document, through it, past it and into scalars
Paths ==
    { SubSeq(PathToPlatform, 1, n) : n \in 0..Len(PathToPlatform) }
    \cup { PathToPlatform \o <<Key(kX)>>,
           PathToPlatform \o <<Index(0), Index(0)>>,
           SubSeq(PathToPlatform, 1, 4) \o <<Index(1)>>,
           SubSeq(PathToPlatform, 1, 4) \o <<Key(kX), Key(kY)>>,
           SubSeq(PathToPlatform, 1, 3) \o <<Key(kX), Key(kY)>>,
           SubSeq(PathToPlatform, 1, 2) \o <<Key(kX)>>,
           <<Key(kSensor)>>,
           <<Key(kSensor), Index(0)>>,
           <<Key(kSensor), Key(kA), Key(kB)>>,
           <<Key(kX)>>,
           <<Index(0)>> }

\* The variables of the merge and of the validation when neither runs
Unused ==
    /\ config = Dict(<<>>)
    /\ config0 = config
    /\ integrations = IntegrationsOf(DictByDefault, DictByDefault)
    /\ packages = Dict(<<>>)
    /\ mpc = "done"
    /\ pos = 1
    /\ pkg_errors = <<>>
    /\ hist = <<>>
    /\ ValidationIdle

InitFindAnnotation ==
    /\ fcall \in {[fn |-> "find_annotation", config |-> d, path |-> p] :
                    d \in AnnotatedDocs, p \in Paths}
    /\ fret = NoCall
    /\ Unused

SpecFindAnnotation == InitFindAnnotation /\ [][NextFindAnnotation]_vars

----------------------------------------------------------------------------
\* humanize_error

\* A str is the sequence of its code points; Text gives the code points of
\* the literals of the messages and of the names in the documents
Text ==
       "Invalid config for '" :> <<73, 110, 118, 97, 108, 105, 100, 32, 99, 111, 110, 102, 105, 103, 32, 102, 111, 114, 32, 39>>
    @@ "'" :> <<39>>
    @@ " at " :> <<32, 97, 116, 32>>
    @@ ", line " :> <<44, 32, 108, 105, 110, 101, 32>>
    @@ ", please check the docs at " :> <<44, 32, 112, 108, 101, 97, 115, 101, 32, 99, 104, 101, 99, 107, 32, 116, 104, 101, 32, 100, 111, 99, 115, 32, 97, 116, 32>>
    @@ "->" :> <<45, 62>>
    @@ "extra keys not allowed" :> <<101, 120, 116, 114, 97, 32, 107, 101, 121, 115, 32, 110, 111, 116, 32, 97, 108, 108, 111, 119, 101, 100>>
    @@ "required key not provided" :> <<114, 101, 113, 117, 105, 114, 101, 100, 32, 107, 101, 121, 32, 110, 111, 116, 32, 112, 114, 111, 118, 105, 100, 101, 100>>
    @@ ": " :> <<58, 32>>
    @@ "' is an invalid option for '" :> <<39, 32, 105, 115, 32, 97, 110, 32, 105, 110, 118, 97, 108, 105, 100, 32, 111, 112, 116, 105, 111, 110, 32, 102, 111, 114, 32, 39>>
    @@ "', check: " :> <<39, 44, 32, 99, 104, 101, 99, 107, 58, 32>>
    @@ "required key '" :> <<114, 101, 113, 117, 105, 114, 101, 100, 32, 107, 101, 121, 32, 39>>
    @@ "' not provided" :> <<39, 32, 110, 111, 116, 32, 112, 114, 111, 118, 105, 100, 101, 100>>
    @@ " for " :> <<32, 102, 111, 114, 32>>
    @@ " '" :> <<32, 39>>
    @@ "', got " :> <<39, 44, 32, 103, 111, 116, 32>>
    @@ "..." :> <<46, 46, 46>>
    @@ "expected int" :> <<101, 120, 112, 101, 99, 116, 101, 100, 32, 105, 110, 116>>
    @@ "not a valid value" :> <<110, 111, 116, 32, 97, 32, 118, 97, 108, 105, 100, 32, 118, 97, 108, 117, 101>>
    @@ "dictionary value" :> <<100, 105, 99, 116, 105, 111, 110, 97, 114, 121, 32, 118, 97, 108, 117, 101>>
    @@ "None" :> <<78, 111, 110, 101>>
    @@ "{" :> <<123>>
    @@ "}" :> <<125>>
    @@ "[" :> <<91>>
    @@ "]" :> <<93>>
    @@ ", " :> <<44, 32>>
    @@ "homeassistant" :> <<104, 111, 109, 101, 97, 115, 115, 105, 115, 116, 97, 110, 116>>
    @@ "packages" :> <<112, 97, 99, 107, 97, 103, 101, 115>>
    @@ "demo" :> <<100, 101, 109, 111>>
    @@ "light" :> <<108, 105, 103, 104, 116>>
    @@ "platform" :> <<112, 108, 97, 116, 102, 111, 114, 109>>
    @@ "sensor" :> <<115, 101, 110, 115, 111, 114>>
    @@ "x" :> <<120>>
    @@ "y" :> <<121>>
    @@ "a" :> <<97>>
    @@ "b" :> <<98>>
    @@ "h" :> <<104>>
    @@ "5" :> <<53>>
    @@ "configuration.yaml" :> <<99, 111, 110, 102, 105, 103, 117, 114, 97, 116, 105, 111, 110, 46, 121, 97, 109, 108>>
    @@ "https://www.home-assistant.io/integrations/light" :> <<104, 116, 116, 112, 115, 58, 47, 47, 119, 119, 119, 46, 104, 111, 109, 101, 45, 97, 115, 115, 105, 115, 116, 97, 110, 116, 46, 105, 111, 47, 105, 110, 116, 101, 103, 114, 97, 116, 105, 111, 110, 115, 47, 108, 105, 103, 104, 116>>
    @@ "0" :> <<48>>
    @@ "1" :> <<49>>
    @@ "2" :> <<50>>
    @@ "3" :> <<51>>
    @@ "4" :> <<52>>
    @@ "6" :> <<54>>
    @@ "7" :> <<55>>
    @@ "8" :> <<56>>
    @@ "9" :> <<57>>
    @@ "10" :> <<49, 48>>

Newline == <<10>>

\* vol.Invalid(message, path, error_type) and vol.MultipleInvalid(errors);
\* error_type "" is None
Invalid(message, path, error_type) ==
    [cls |-> "Invalid", message |-> message, path |-> path, error_type |-> error_type]
MultipleInvalid(errors) == [cls |-> "MultipleInvalid", errors |-> errors]

\* The str of a mapping key: the texts of its tokens, one after the other
RECURSIVE key_text(_)
key_text(k) == IF k = <<>> THEN <<>> ELSE Text[Head(k)] \o key_text(Tail(k))

\* str(m) for a segment of an error path
segment_text(m) == IF m.seg = "key" THEN key_text(m.k) ELSE Text[ToString(m.i)]

\* sep.join(strings)
RECURSIVE join(_, _)
join(sep, strings) ==
    IF strings = <<>> THEN <<>>
    ELSE IF Len(strings) = 1 THEN strings[1]
    ELSE strings[1] \o sep \o join(sep, Tail(strings))

\* a < b for two str: by the code points at the first place where they
\* differ, a proper prefix before the longer str
str_less(a, b) ==
    LET shorter == IF Len(a) < Len(b) THEN Len(a) ELSE Len(b)
        differ == {i \in 1..shorter : a[i] # b[i]}
    IN IF differ = {} THEN Len(a) < Len(b)
       ELSE LET first == CHOOSE i \in differ : \A j \in 1..(i - 1) : a[j] = b[j]
            IN a[first] < b[first]

\* x put into an ascending list behind the elements that are not greater
RECURSIVE insort(_, _)
insort(x, s) ==
    IF s = <<>> THEN <<x>>
    ELSE IF str_less(x, Head(s)) THEN <<x>> \o s
    ELSE <<Head(s)>> \o insort(x, Tail(s))

RECURSIVE sorted_from(_, _)
sorted_from(s, done) ==
    IF s = <<>> THEN done ELSE sorted_from(Tail(s), insort(Head(s), done))

\* The messages in the order the sub-errors came in
sorted_as_given(strings) == strings

\* sorted(strings), lines 716-721: ascending and stable
sorted(strings) == sorted_from(strings, <<>>)

\* repr of a value of the document
RECURSIVE repr(_)
repr(value) ==
    CASE value.t = "none" -> Text["None"]
      [] value.t = "scalar" -> Text["'"] \o Text[value.v] \o Text["'"]
      [] value.t = "dict" ->
            Text["{"]
            \o join(Text[", "],
                    [i \in 1..Len(value.items) |->
                        Text["'"] \o key_text(value.items[i].k) \o Text["'"]
                        \o Text[": "] \o repr(value.items[i].val)])
            \o Text["}"]
      [] value.t = "list" ->
            Text["["]
            \o join(Text[", "], [i \in 1..Len(value.items) |-> repr(value.items[i])])
            \o Text["]"]

\* _relpath, lines 643-645: the path of the file from the configuration
\* directory, /config
relpath(path) ==
    CASE path = "/config/configuration.yaml" -> Text["configuration.yaml"]

\* stringify_invalid, lines 648-698, for an error with a path that is not
\* empty; link "" is no link
stringify_invalid(ex, domain, conf, link, max_sub_error_length) ==
    LET annotation == find_annotation(conf, ex.path).annotation
        message_prefix ==
            Text["Invalid config for '"] \o key_text(domain) \o Text["'"]
            \o (IF annotation # NoTag
                THEN Text[" at "] \o relpath(annotation.file)
                     \o Text[", line "] \o Text[annotation.line]
                ELSE <<>>)
        message_suffix ==
            IF domain # CONF_CORE /\ link # ""
            THEN Text[", please check the docs at "] \o Text[link]
            ELSE <<>>
        path == join(Text["->"], [i \in 1..Len(ex.path) |-> segment_text(ex.path[i])])
        output == Text[ex.message]
                  \o (IF ex.error_type # "" THEN Text[" for "] \o Text[ex.error_type]
                      ELSE <<>>)
        summary == repr(get_by_path(conf, ex.path))
        offending_item_summary ==
            IF Len(summary) > max_sub_error_length
            THEN SubSeq(summary, 1, max_sub_error_length - 3) \o Text["..."]
            ELSE summary
    IN IF ex.message = "extra keys not allowed"
       THEN message_prefix \o Text[": "] \o Text["'"] \o segment_text(Last(ex.path))
            \o Text["' is an invalid option for '"] \o key_text(domain)
            \o Text["', check: "] \o path \o message_suffix
       ELSE IF ex.message = "required key not provided"
       THEN message_prefix \o Text[": "] \o Text["required key '"]
            \o segment_text(Last(ex.path)) \o Text["' not provided"] \o message_suffix
       ELSE message_prefix \o Text[": "] \o output \o Text[" '"] \o path
            \o Text["', got "] \o offending_item_summary \o message_suffix

\* humanize_error, lines 701-725
RECURSIVE humanize_error(_, _, _, _, _)
humanize_error(validation_error, domain, conf, link, max_sub_error_length) ==
    IF validation_error.cls = "MultipleInvalid"
    THEN join(Newline,
              sorted([i \in 1..Len(validation_error.errors) |->
                        humanize_error(validation_error.errors[i], domain, conf, link,
                                       max_sub_error_length)]))
    ELSE stringify_invalid(validation_error, domain, conf, link, max_sub_error_length)

HumanizeError ==
    /\ fcall.fn = "humanize_error"
    /\ fret = NoCall
    /\ fret' = [fn |-> "humanize_error",
                message |-> humanize_error(fcall.validation_error, fcall.domain,
                                           fcall.config, fcall.link,
                                           fcall.max_sub_error_length)]
    /\ UNCHANGED <<config, integrations, config0, mergeVars, validateVars, fcall>>

NextHumanizeError == HumanizeError

\* The most sub-errors of one failure
MaxSubErrors == 3

\* Errors without sub-errors: an unknown option, a missing option and two
\* wrong values, the second on a sequence whose repr is long
SingleErrors ==
    {Invalid("extra keys not allowed", PathToPlatform \o <<Key(kX)>>, ""),
     Invalid("required key not provided", <<Key(kSensor)>>, ""),
     Invalid("expected int", PathToPlatform, "dictionary value"),
     Invalid("not a valid value", SubSeq(PathToPlatform, 1, 4), "")}

\* The sub-errors of a failure: three of them, and a failure with sub-errors
\* of its own
SubErrors ==
    {Invalid("extra keys not allowed", PathToPlatform \o <<Key(kX)>>, ""),
     Invalid("required key not provided", <<Key(kSensor)>>, ""),
     Invalid("not a valid value", SubSeq(PathToPlatform, 1, 4), ""),
     MultipleInvalid(<<Invalid("required key not provided", <<Key(kSensor)>>, ""),
                       Invalid("expected int", PathToPlatform, "dictionary value")>>)}

ValidationErrors ==
    SingleErrors
    \cup {MultipleInvalid(errors) :
            errors \in UNION {[1..n -> SubErrors] : n \in 1..MaxSubErrors}}

\* A document without tags, and one with the key light, the scalar under
\* platform and the key and the scalar of sensor tagged
Untagged ==
    AnnotatedDoc(NoTag, NoTag, NoTag, NoTag, NoTag, NoTag, NoTag, NoTag, NoTag, NoTag,
                 NoTag)
PartlyTagged ==
    AnnotatedDoc(NoTag, NoTag, Tag("9"), NoTag, Tag("4"), NoTag, NoTag, Tag("10"),
                 NoTag, Tag("8"), NoTag)

LightDocs == "https://www.home-assistant.io/integrations/light"

\* The domain, the document, the link and the longest repr of a call
HumanizeSetting(domain, conf, link, max_sub_error_length) ==
    [domain |-> domain, config |-> conf, link |-> link,
     max_sub_error_length |-> max_sub_error_length]

HumanizeSettings ==
    {HumanizeSetting(kLight, PartlyTagged, LightDocs, 12),
     HumanizeSetting(kLight, PartlyTagged, "", 255),
     HumanizeSetting(kLight, Untagged, LightDocs, 255),
     HumanizeSetting(CONF_CORE, PartlyTagged, LightDocs, 255)}

InitHumanizeError ==
    /\ fcall \in {[fn |-> "humanize_error", validation_error |-> e,
                   domain |-> h.domain, config |-> h.config, link |-> h.link,
                   max_sub_error_length |-> h.max_sub_error_length] :
                    e \in ValidationErrors, h \in HumanizeSettings}
    /\ fret = NoCall
    /\ Unused

SpecHumanizeError == InitHumanizeError /\ [][NextHumanizeError]_vars

----------------------------------------------------------------------------
\* _recursive_merge on its own

RecursiveMerge ==
    /\ fcall.fn = "_recursive_merge"
    /\ fret = NoCall
    /\ fret' = [fn |-> "_recursive_merge",
                conf |-> recursive_merge(fcall.conf, fcall.package).conf,
                duplicate_key |-> recursive_merge(fcall.conf, fcall.package).duplicate_key,
                raised |-> recursive_merge(fcall.conf, fcall.package).raised]
    /\ UNCHANGED <<config, integrations, config0, mergeVars, validateVars, fcall>>

NextRecursiveMerge == RecursiveMerge

\* What the conf holds at the key the package also names
ConfValues ==
    {NoneV, Scalar("5"), Scalar("0"),
     List(<<>>), List(<<Scalar("1"), Scalar("0")>>),
     Dict(<<>>), Dict(<<Item(kX, Scalar("1"))>>),
     Dict(<<Item(kL, List(<<Scalar("1")>>))>>)}

\* What the package holds at that key: empty mappings, sequences, scalars and
\* mappings that hold them one level down
PackageValues ==
    {Dict(<<>>), Scalar("1"),
     List(<<>>), List(<<Scalar("2")>>), List(<<Scalar("0"), Scalar("2")>>),
     Dict(<<Item(kE, Dict(<<>>))>>),
     Dict(<<Item(kE, Dict(<<>>)), Item(kX, Scalar("2"))>>),
     Dict(<<Item(kL, List(<<Scalar("2")>>))>>),
     Dict(<<Item(kX, Scalar("2"))>>),
     Dict(<<Item(kY, Scalar("1")), Item(kX, Scalar("2")), Item(kB, Scalar("3"))>>)}

SharedKeys == {kE, kL, kN}

\* The confs of a call: mappings, and the scalar and the sequence that a
\* nested call is handed when the conf's value at the key is no mapping
MergeConfs ==
    { Dict(h \o t) :
        h \in {<<>>, <<Item(kA, Scalar("5"))>>},
        t \in {<<>>} \cup {<<Item(k, v)>> : k \in SharedKeys, v \in ConfValues} }
    \cup {Scalar("5"), List(<<Scalar("1")>>)}

MergePackages ==
    { Dict(h \o t \o z) :
        h \in {<<>>, <<Item(kA, Scalar("1"))>>},
        t \in {<<>>} \cup {<<Item(k, v)>> : k \in SharedKeys, v \in PackageValues},
        z \in {<<>>, <<Item(kB, Scalar("2"))>>,
                <<Item(kM, Dict(<<Item(kY, Scalar("1"))>>))>>} }

InitRecursiveMerge ==
    /\ fcall \in {[fn |-> "_recursive_merge", conf |-> c, package |-> p] :
                    c \in MergeConfs, p \in MergePackages}
    /\ fret = NoCall
    /\ Unused

SpecRecursiveMerge == InitRecursiveMerge /\ [][NextRecursiveMerge]_vars

----------------------------------------------------------------------------
\* Properties of the merge

\* The pairs the loop has handled so far
Handled == Len(hist)

DomainOf(comp_name) == integration_for(partition_head(comp_name))

\* The domain of the key loads and its policy resolves to a list merge
ListPolicy(comp_name) ==
    /\ comp_name # CONF_CORE
    /\ DomainOf(comp_name).load = "ok"
    /\ ~merge_policy(DomainOf(comp_name)).raised
    /\ merge_policy(DomainOf(comp_name)).merge_list

\* ensure_list(F1) ++ ... ++ ensure_list(Fn): the fragments the first n pairs
\* of the packages contribute to key k, in the order of the packages
RECURSIVE Fragments(_, _, _)
Fragments(prs, k, n) ==
    IF n = 0 THEN <<>>
    ELSE Fragments(prs, k, n - 1)
         \o (IF prs[n].comp_name = k THEN ensure_list(prs[n].comp_conf) ELSE <<>>)

Contributors(k) == {i \in 1..Handled : pairs_of(packages)[i].comp_name = k}

\* C1: under the list policy the value at a key that packages have contributed
\* to is drop_falsy(ensure_list(E) ++ ensure_list(F1) ++ ... ++ ensure_list(Fn)),
\* E the value the document had at the key when the merge was called and F1..Fn
\* the fragments of the packages handled so far, in the packages' order.
C1_ListMergeIsOrderedConcatenation ==
    mpc \in {"loop", "done", "raised"} =>
      \A i \in 1..Handled :
        LET k == pairs_of(packages)[i].comp_name IN
        ListPolicy(k) =>
          dict_get(config, k, NoneV) =
            List(remove_falsy(ensure_list(dict_get(config0, k, NoneV))
                              \o Fragments(pairs_of(packages), k, Handled)))

\* C1's case: the merge is done, two packages gave fragments to a list-policy
\* key that already held entries, and a falsy element was dropped
C1_Witness ==
    /\ mpc = "done"
    /\ \E k \in {kLight, kLightTwo} :
         /\ ListPolicy(k)
         /\ Cardinality(Contributors(k)) >= 2
         /\ Truthy(dict_get(config0, k, NoneV))
         /\ Len(dict_get(config, k, NoneV).items) >= 3
         /\ Len(dict_get(config, k, NoneV).items)
              < Len(ensure_list(dict_get(config0, k, NoneV))
                    \o Fragments(pairs_of(packages), k, Handled))

\* Keys of the scalar leaves of fragment frag, at any depth, whose target in
\* conf is set to a value that is not None
RECURSIVE ConflictKeys(_, _)
ConflictKeys(conf, frag) ==
    IF ~IsDict(conf) \/ ~IsDict(frag) THEN {}
    ELSE UNION { LET key == frag.items[i].k
                     leaf == frag.items[i].val
                     target == dict_get(conf, key, NoneV)
                 IN IF IsScalar(leaf) THEN (IF IsNone(target) THEN {} ELSE {key})
                    ELSE IF IsDict(leaf) THEN ConflictKeys(target, leaf)
                    ELSE {} : i \in 1..Len(frag.items) }

\* Every scalar leaf of frag whose target was set in before has the same target
\* in after
RECURSIVE Retained(_, _, _)
Retained(before, after, frag) ==
    IF ~IsDict(before) \/ ~IsDict(frag) THEN TRUE
    ELSE \A i \in 1..Len(frag.items) :
           LET key == frag.items[i].k
               leaf == frag.items[i].val
               target == dict_get(before, key, NoneV)
           IN IF IsScalar(leaf)
              THEN IsNone(target)
                   \/ (IsDict(after) /\ dict_get(after, key, NoneV) = target)
              ELSE IF IsDict(leaf)
              THEN Retained(target, IF IsDict(after) THEN dict_get(after, key, NoneV)
                                    ELSE NoneV, leaf)
              ELSE TRUE

\* The pair of history record h went through _recursive_merge
DictMerged(h) ==
    /\ h.policy = "dict"
    /\ IsDict(h.pair.comp_conf)
    /\ IsDict(dict_get(h.after, h.pair.comp_name, NoneV))
    /\ \A e \in 1..Len(h.errors) : h.errors[e].kind = "duplicate_key"

SlotBefore(h) ==
    LET slot == dict_get(h.before, h.pair.comp_name, NoneV)
    IN IF IsNone(slot) THEN Dict(<<>>) ELSE slot

\* C2: under the dict policy, a pair whose fragment has scalar leaves with a
\* target already set to a non-null value is reported as a duplicate-key failure
\* naming such a key, and the earlier values are still in the document.
C2_DuplicateKeyIsReported ==
    \A i \in 1..Handled :
      LET h == hist[i]
          conflicts == ConflictKeys(SlotBefore(h), h.pair.comp_conf)
      IN (DictMerged(h) /\ ~h.raised /\ conflicts # {}) =>
           /\ Len(h.errors) = 1
           /\ h.errors[1].package = h.pair.pack_name
           /\ h.errors[1].component = h.pair.comp_name
           /\ h.errors[1].kind = "duplicate_key"
           /\ h.errors[1].key \in conflicts
           /\ Retained(SlotBefore(h), dict_get(h.after, h.pair.comp_name, NoneV),
                       h.pair.comp_conf)

\* The kind of failure of the pair of history record h, from the packages, the
\* loader's answers and the document before the pair
FailureOf(h) ==
    LET slot == dict_get(h.before, h.pair.comp_name, NoneV)
        frag == h.pair.comp_conf
    IN IF h.pair.comp_name = CONF_CORE THEN "none"
       ELSE IF DomainOf(h.pair.comp_name).load # "ok" THEN "load"
       ELSE IF h.policy # "dict" THEN "none"
       ELSE IF ~IsDict(frag) /\ ~IsNone(frag) THEN "fragment"
       ELSE IF ~IsDict(slot) /\ ~IsNone(slot) THEN "slot"
       ELSE IF ConflictKeys(SlotBefore(h), frag) # {} THEN "duplicate"
       ELSE "none"

ReportsOf(h) ==
    {e \in 1..Len(pkg_errors) :
        /\ pkg_errors[e].package = h.pair.pack_name
        /\ pkg_errors[e].component = h.pair.comp_name}

\* C3: a failed pair (integration not loadable, fragment or document slot not
\* a mapping under the dict policy, duplicate key) is reported exactly once and
\* does not stop the merge; the three structural failures leave the document
\* as it was.
C3_FailureIsLocalToThePair ==
    \A i \in 1..Handled :
      LET h == hist[i] IN
      /\ h.policy \in {"unloadable", "dict"} => ~h.raised
      /\ FailureOf(h) # "none" => Cardinality(ReportsOf(h)) = 1
      /\ FailureOf(h) \in {"load", "fragment", "slot"} => h.after = h.before

\* The names, and the shape of what the packages hold: a mapping of slugs to
\* mappings whose values are mapping, list or null
ShapeOk(pk) ==
    /\ IsDict(pk)
    /\ \A i \in 1..Len(pk.items) :
         /\ \A c \in 1..Len(pk.items[i].k) : pk.items[i].k[c] \notin NonSlugTokens
         /\ IsDict(pk.items[i].val)
         /\ \A j \in 1..Len(pk.items[i].val.items) :
              ~IsScalar(pk.items[i].val.items[j].val)

\* C4: the packages block is checked as a whole before anything is merged: a
\* block that is structurally invalid ends the merge at once with the document
\* as it was, nothing merged and nothing else reported.
C4_InvalidPackagesAbortBeforeAnyMerge ==
    /\ ~ShapeOk(packages) =>
         /\ mpc \in {"start", "invalid"}
         /\ config = config0
         /\ hist = <<>>
         /\ pkg_errors = <<>>
    /\ ShapeOk(packages) => mpc # "invalid"

\* C4's case: the merge has aborted on a block whose first package is valid
\* and would have been merged, and whose second is not
C4_Witness ==
    /\ mpc = "invalid"
    /\ IsDict(packages)
    /\ Len(packages.items) >= 2
    /\ ShapeOk(Dict(<<packages.items[1]>>))
    /\ \E j \in 1..Len(packages.items[1].val.items) :
         ListPolicy(packages.items[1].val.items[j].k)

\* The policy C5 states: the hint of a custom validator alone, else the
\* per-platform schema marker, else the whole-schema
ClaimedMergeList(integ) ==
    IF integ.config_platform = "validator" THEN integ.hint = "list"
    ELSE IF integ.platform_schema THEN TRUE
    ELSE integ.config_schema.present
         /\ identify_config_schema(integ.config_schema) = "list"

----------------------------------------------------------------------------
\* Properties of the validation of one domain (process 1 validates "light")

Outcome == vresult[1]

Failures == Outcome.exception_info_list

Returned == vpc[1] = "done" /\ Outcome.returned

Component == integration_for(kLight)

Categories == {Failures[i].translation_key : i \in 1..Len(Failures)}

Called == {vcalls[1][i] : i \in 1..Len(vcalls[1])}

\* The one failure of a terminal step: its category, with the domain, the
\* whole incoming config and the documentation link of the domain
OnlyFailure(category) ==
    /\ IsNone(Outcome.config)
    /\ Len(Failures) = 1
    /\ Failures[1].translation_key = category
    /\ Failures[1].platform_name = kLight
    /\ Failures[1].config = config0
    /\ Failures[1].integration_link = <<"docs/", "light">>

\* C6: when loading the component module fails the outcome is terminal: no
\* config, exactly one failure of category ComponentImportErr with the domain,
\* the whole incoming config and the documentation link, and no validator or
\* schema has been invoked.
C6_LoadFailureIsTerminal ==
    (Returned /\ Component.load # "ok") =>
      /\ OnlyFailure("component_import_err")
      /\ Called = {"get_component"}

C6_Witness ==
    /\ Returned
    /\ Component.load = "load_exc"
    /\ Component.config_platform = "validator"
    /\ Component.config_schema.present
    /\ Component.platform_schema
    /\ HasKey(config0, kLight)

ValidatorApplies == Component.load = "ok" /\ Component.config_platform = "validator"

\* The outcome of the custom-validator step when the exceptions of
\* validation_errors count as validation errors and every other as unknown
ValidatorDecides(validation_errors) ==
    (Returned /\ ValidatorApplies) =>
      /\ Called = {"get_component", "get_platform", "async_validate_config"}
      /\ Len(SelectSeq(vcalls[1], LAMBDA c : c = "async_validate_config")) = 1
      /\ Component.validator_result = "ok" =>
           /\ Outcome.config = dict_set(config0, <<"validated_by">>,
                                        Scalar("async_validate_config"))
           /\ Failures = <<>>
      /\ Component.validator_result \in validation_errors =>
           OnlyFailure("config_validation_err")
      /\ Component.validator_result \notin validation_errors \cup {"ok"} =>
           OnlyFailure("config_validator_unknown_err")

\* C7 as stated: with a custom validator the outcome is decided by its call
\* alone; a structured-validation error gives ConfigValidationErr and any
\* other exception gives ConfigValidatorUnknownErr.
C7_AnyOtherExceptionIsUnknown == ValidatorDecides({"invalid"})

\* C7: with a custom validator the outcome is decided by its call alone and no
\* schema is applied; success gives the returned config without failures; a
\* structured-validation error or a HomeAssistantError gives no config and one
\* ConfigValidationErr; any other exception gives no config and one
\* ConfigValidatorUnknownErr.
C7_ValidatorDecidesAlone == ValidatorDecides({"invalid", "ha_error"})

C7_Witness ==
    /\ Returned
    /\ ValidatorApplies
    /\ Component.validator_result = "ha_error"
    /\ Component.config_schema.present
    /\ Component.platform_schema

SchemaApplies ==
    /\ Component.load = "ok"
    /\ Component.config_platform \in {"missing", "no_validator"}
    /\ Component.config_schema.present

\* C8: without a custom validator a declared CONFIG_SCHEMA is applied to the
\* whole incoming config and is terminal: success gives its result without
\* failures, a structured-validation failure no config and one
\* ConfigValidationErr, any other exception no config and one
\* ConfigSchemaUnknownErr; no per-platform schema is applied.
C8_WholeSchemaIsTerminal ==
    (Returned /\ SchemaApplies) =>
      /\ Called = {"get_component", "get_platform", "CONFIG_SCHEMA"}
      /\ Component.schema_result = "ok" =>
           /\ Outcome.config = dict_set(config0, <<"validated_by">>,
                                        Scalar("CONFIG_SCHEMA"))
           /\ Failures = <<>>
      /\ Component.schema_result = "invalid" => OnlyFailure("config_validation_err")
      /\ Component.schema_result = "exception" =>
           OnlyFailure("config_schema_unknown_err")

C8_Witness ==
    /\ Returned
    /\ SchemaApplies
    /\ Component.schema_result = "exception"
    /\ Component.platform_schema
    /\ HasKey(config0, kLight)

PerPlatformPath ==
    /\ Component.load = "ok"
    /\ Component.config_platform \in {"missing", "no_validator"}
    /\ ~Component.config_schema.present
    /\ Component.platform_schema \/ Component.platform_schema_base

\* The entries of the domain, in the order of the document
Entries == config_per_platform(config0, kLight)

\* The entry passes every check that applies to it: the component's schema,
\* and when it names a platform, the platform loads, imports and its own
\* schema, if it has one, accepts the entry
Passes(entry) ==
    /\ IsDict(entry.p_config)
    /\ ~HasKey(entry.p_config, kBase)
    /\ \/ IsNone(entry.p_name)
       \/ /\ <<entry.p_name.v>> \in DOMAIN integrations
          /\ integrations[<<entry.p_name.v>>].load = "ok"
          /\ integrations[<<entry.p_name.v>>].platform # "load_exc"
          /\ \/ integrations[<<entry.p_name.v>>].platform = "no_schema"
             \/ ~HasKey(entry.p_config, kOwn)

\* A validated entry without what validation added to it
Unvalidated(value) ==
    Dict(SelectSeq(value.items, LAMBDA it : it.k # <<"validated_by">>))

\* C9: on the per-platform path the list under the domain key holds exactly
\* the validated entries that passed every check, in their original order; a
\* failing entry is dropped and takes no sibling with it.
C9_OutputIsThePassingEntriesInOrder ==
    (Returned /\ PerPlatformPath) =>
      LET passing == SelectSeq(Entries, LAMBDA e : Passes(e))
          out == dict_get(Outcome.config, kLight, NoneV)
      IN /\ IsList(out)
         /\ Len(out.items) = Len(passing)
         /\ \A i \in 1..Len(passing) :
              /\ HasKey(out.items[i], <<"validated_by">>)
              /\ Unvalidated(out.items[i]) = passing[i].p_config

C9_Witness ==
    /\ Returned
    /\ PerPlatformPath
    /\ Len(Entries) = 3
    /\ Passes(Entries[1]) /\ ~Passes(Entries[2]) /\ Passes(Entries[3])
    /\ Entries[1] # Entries[3]
    /\ Len(dict_get(Outcome.config, kLight, NoneV).items) = 2

DomainLevel ==
    {"component_import_err", "config_platform_import_err", "config_validation_err",
     "config_validator_unknown_err", "config_schema_unknown_err"}

PerEntry ==
    {"platform_config_validation_err", "platform_schema_validator_err",
     "platform_component_load_err", "platform_component_load_exc"}

\* C10: in every outcome the config is absent exactly when the failures hold a
\* domain-level failure, which is then the only failure; on the per-platform
\* path the config is present, the domain key maps to a list, and every
\* failure has a per-entry category.
C10_OutcomeInvariant ==
    Returned =>
      /\ IsNone(Outcome.config) <=> Categories \cap DomainLevel # {}
      /\ Categories \cap DomainLevel # {} => Len(Failures) = 1
      /\ PerPlatformPath =>
           /\ IsDict(Outcome.config)
           /\ IsList(dict_get(Outcome.config, kLight, NoneV))
           /\ Categories \subseteq PerEntry

C10_Witness ==
    /\ Returned
    /\ PerPlatformPath
    /\ Len(Entries) = 3
    /\ Len(Failures) = 3
    /\ Cardinality(Categories) = 3
    /\ dict_get(Outcome.config, kLight, NoneV) = List(<<>>)

----------------------------------------------------------------------------
\* Properties of async_handle_component_errors (process 1, domain "light")

Handling == vhandle[1]

WasHandled == vpc[1] = "handled" /\ Handling.handled

\* C11: every failure of the outcome is logged exactly once, in the order of
\* the list, with or without raise_on_failure; a ConfigValidationError is
\* raised exactly when raise_on_failure is set and there is a failure;
\* otherwise the call returns the config of the outcome.
C11_LoggedAlwaysRaisedOnRequest ==
    WasHandled =>
      /\ Len(Handling.logged) = Len(Failures)
      /\ \A i \in 1..Len(Failures) :
           Handling.logged[i].message =
             get_log_message_and_stack_print_pref(kLight, Failures[i]).log_message
      /\ Handling.raised <=> (Handling.raise_on_failure /\ Len(Failures) > 0)
      /\ ~Handling.raised => Handling.returned = Outcome.config

C11_Witness ==
    /\ WasHandled
    /\ ~Handling.raise_on_failure
    /\ Len(Failures) = 2
    /\ Len(Handling.logged) = 2
    /\ IsDict(Handling.returned)
    /\ Len(dict_get(Handling.returned, kLight, NoneV).items) = 1

\* C12: the error raised for one failure carries the category and the
\* formatted message of that failure; the error raised for two or more
\* carries IntegrationConfigError and one summary message with their number;
\* either way it carries the exceptions of all failures, in the order of the
\* list.
C12_RaisedErrorSummarisesFailures ==
    (WasHandled /\ Handling.raised) =>
      /\ Len(Failures) = 1 =>
           /\ Handling.error.translation_key = Failures[1].translation_key
           /\ Handling.error.message = Handling.logged[1].message
      /\ Len(Failures) >= 2 =>
           /\ Handling.error.translation_key = "integration_config_error"
           /\ \E j \in 1..Len(Handling.error.message) :
                /\ Handling.error.message[j] = " due to multiple errors ("
                /\ Handling.error.message[j + 1] = ToString(Len(Failures))
           /\ \A i \in 1..Len(Failures) :
                Handling.error.message # Handling.logged[i].message
      /\ Len(Handling.error.exceptions) = Len(Failures)
      /\ \A i \in 1..Len(Failures) :
           Handling.error.exceptions[i] = Failures[i].exception

C12_Witness ==
    /\ WasHandled
    /\ Handling.raised
    /\ Len(Failures) = 3
    /\ Failures[1].exception # Failures[2].exception
    /\ Failures[2].exception # Failures[3].exception
    /\ Failures[3].translation_key # "integration_config_error"

----------------------------------------------------------------------------
\* More properties of the merge

\* None of the three steps of the resolution says anything: no custom
\* validator, no PLATFORM_SCHEMA, and no CONFIG_SCHEMA or one whose inspection
\* is indeterminate
Undetermined(integ) ==
    /\ integ.config_platform # "validator"
    /\ ~integ.platform_schema
    /\ \/ ~integ.config_schema.present
       \/ identify_config_schema(integ.config_schema) = "none"

\* One of the three steps says "list"
PositivelyList(integ) ==
    \/ integ.config_platform = "validator" /\ integ.hint = "list"
    \/ integ.platform_schema
    \/ integ.config_schema.present /\ identify_config_schema(integ.config_schema) = "list"

\* C16: a domain whose merge policy cannot be determined is merged with the
\* recursive dict merge (it never gets a list it did not have); the list merge
\* is used only when one of the three steps of the resolution yields "list".
C16_UndeterminedPolicyIsDict ==
    \A i \in 1..Handled :
      LET h == hist[i]
          integ == DomainOf(h.pair.comp_name)
      IN h.policy \in {"list", "dict"} =>
           /\ Undetermined(integ) =>
                /\ h.policy = "dict"
                /\ IsList(dict_get(h.after, h.pair.comp_name, NoneV)) => h.after = h.before
           /\ h.policy = "list" => PositivelyList(integ)

C16_Witness ==
    \E i \in 1..Handled :
      /\ Undetermined(DomainOf(hist[i].pair.comp_name))
      /\ DomainOf(hist[i].pair.comp_name).config_schema.present
      /\ DomainOf(hist[i].pair.comp_name).config_schema.is_schema
      /\ hist[i].policy = "dict"
      /\ IsDict(hist[i].pair.comp_conf)
      /\ IsDict(dict_get(hist[i].after, hist[i].pair.comp_name, NoneV))
      /\ hist[i].after # hist[i].before

----------------------------------------------------------------------------
\* More properties of the validation of one domain

Passthrough ==
    /\ Component.load = "ok"
    /\ Component.config_platform \in {"missing", "no_validator"}
    /\ ~Component.config_schema.present
    /\ ~Component.platform_schema
    /\ ~Component.platform_schema_base

\* C14: a domain that loads and has no custom validator, no CONFIG_SCHEMA, no
\* PLATFORM_SCHEMA_BASE and no PLATFORM_SCHEMA gets the incoming config back
\* unchanged, keys of other domains included, with no failure.
C14_PassthroughReturnsTheConfig ==
    (Returned /\ Passthrough) =>
      /\ Outcome.config = config0
      /\ Failures = <<>>
      /\ Called = {"get_component", "get_platform"}

C14_Witness ==
    /\ Returned
    /\ Passthrough
    /\ Len(Entries) = 2
    /\ ~Passes(Entries[2])
    /\ HasKey(Outcome.config, kSensor)

\* The category the claim gives the failure of an entry, "none" for an entry
\* that passes: from what the entry holds and the platform it names
Classify(entry) ==
    IF ~IsDict(entry.p_config) THEN "platform_config_validation_err"
    ELSE IF HasKey(entry.p_config, kBase)
    THEN (IF dict_get(entry.p_config, kBase, NoneV).v = "invalid"
          THEN "platform_config_validation_err"
          ELSE "platform_schema_validator_err")
    ELSE IF IsNone(entry.p_name) THEN "none"
    ELSE IF <<entry.p_name.v>> \notin DOMAIN integrations
            \/ integrations[<<entry.p_name.v>>].load # "ok"
    THEN "platform_component_load_err"
    ELSE IF integrations[<<entry.p_name.v>>].platform = "load_exc"
    THEN "platform_component_load_exc"
    ELSE IF integrations[<<entry.p_name.v>>].platform = "schema"
            /\ HasKey(entry.p_config, kOwn)
    THEN (IF dict_get(entry.p_config, kOwn, NoneV).v = "invalid"
          THEN "platform_config_validation_err"
          ELSE "platform_schema_validator_err")
    ELSE "none"

\* C17: on the per-platform path a structured-validation failure of the
\* component's schema or of the platform's own schema is filed as
\* PlatformConfigValidationErr, any other exception of either as
\* PlatformSchemaValidatorErr, a platform whose integration or requirements
\* cannot be resolved as PlatformComponentLoadErr, a platform module that fails
\* to import as PlatformComponentLoadExc; an entry naming no platform meets the
\* component's schema only and gives no load failure.
C17_EntryFailuresAreClassified ==
    (Returned /\ PerPlatformPath) =>
      LET failing == SelectSeq(Entries, LAMBDA e : Classify(e) # "none") IN
      /\ Len(Failures) = Len(failing)
      /\ \A i \in 1..Len(failing) :
           Failures[i].translation_key = Classify(failing[i])
      /\ (\A i \in 1..Len(Entries) : IsNone(Entries[i].p_name)) =>
           /\ Categories \subseteq {"platform_config_validation_err",
                                    "platform_schema_validator_err"}
           /\ "platform.PLATFORM_SCHEMA" \notin Called

C17_Witness ==
    /\ Returned
    /\ PerPlatformPath
    /\ Len(Failures) = 3
    /\ Failures[1].translation_key = "platform_schema_validator_err"
    /\ Failures[2].translation_key = "platform_component_load_err"
    /\ Failures[2].exception = "RequirementsNotFound"
    /\ Failures[3].translation_key = "platform_component_load_exc"

\* C18: the document returned by the per-platform path maps the domain key to
\* the list of the surviving entries, holds no other key addressed to the
\* domain (a key with a text after the domain name included), and maps every
\* other key to the value it has in the incoming document.
C18_DomainKeysCollapseIntoOne ==
    (Returned /\ PerPlatformPath) =>
      LET out == Outcome.config
          other(d) == SelectSeq(d.items, LAMBDA it : partition_head(it.k) # kLight)
      IN /\ IsDict(out)
         /\ HasKey(out, kLight)
         /\ dict_get(out, kLight, NoneV) = List(vplatforms[1])
         /\ \A i \in 1..Len(out.items) :
              out.items[i].k # kLight => partition_head(out.items[i].k) # kLight
         /\ other(out) = other(config0)
         /\ Len(out.items) = Len(other(config0)) + 1

C18_Witness ==
    /\ Returned
    /\ PerPlatformPath
    /\ HasKey(config0, kLight)
    /\ HasKey(config0, kLightTwo)
    /\ config0.items[2].k = kSensor
    /\ ~HasKey(Outcome.config, kLightTwo)
    /\ Len(dict_get(Outcome.config, kLight, NoneV).items) = 2

----------------------------------------------------------------------------
\* Properties of two validations of the same document

\* The per-platform loop of one domain run from entry i to its end without
\* anything else running
RECURSIVE entries_alone(_, _, _, _, _)
entries_alone(conf, domain, i, platforms, exceptions) ==
    LET entries == config_per_platform(conf, domain) IN
    IF i > Len(entries)
    THEN platform_config_result(conf, domain, platforms, exceptions)
    ELSE
      LET base == validate_entry(domain, entries[i], conf,
                                 component_platform_schema(integration_for(domain)))
          own == validate_platform(domain, entries[i], base.p_validated,
                                   integration_for(str(entries[i].p_name)))
      IN IF ~base.ok
         THEN entries_alone(conf, domain, i + 1, platforms, exceptions \o base.failures)
         ELSE IF IsNone(entries[i].p_name)
         THEN entries_alone(conf, domain, i + 1, Append(platforms, base.p_validated),
                            exceptions)
         ELSE entries_alone(conf, domain, i + 1,
                            IF own.ok THEN Append(platforms, own.p_validated)
                            ELSE platforms,
                            exceptions \o own.failures)

\* The outcome of validating the domain alone against the document conf
ValidatedAlone(conf, domain) ==
    LET integ == integration_for(domain) IN
    IF integ.load # "ok" THEN component_import_failure(domain, conf)
    ELSE IF integ.config_platform = "bad_import"
    THEN config_platform_import_failure(domain, conf)
    ELSE IF integ.config_platform = "validator"
    THEN custom_validator_outcome(domain, conf, integ.validator_result)
    ELSE IF integ.config_schema.present
    THEN config_schema_outcome(domain, conf, integ.schema_result)
    ELSE IF component_platform_schema(integ) = "none"
    THEN IntegrationConfigInfo(conf, <<>>)
    ELSE entries_alone(conf, domain, 1, <<>>, <<>>)

\* C15: a validation never changes the document it is given; when two domains
\* are validated against the same document, their calls suspended and resumed
\* in any order, the outcome of each is the outcome of validating it alone, and
\* the document is as it was.
C15_ValidationReadsASnapshot ==
    /\ config = config0
    /\ \A p \in Procs :
         vpc[p] \in {"done", "handled"} =>
           vresult[p] = ValidatedAlone(config0, vdom[p])

C15_Witness ==
    /\ vpc[1] = "done"
    /\ Len(vresult[1].exception_info_list) = 1
    /\ IsDict(vresult[1].config)
    /\ vresult[1].config # config0
    /\ vpc[2] = "platform"
    /\ vidx[2] = 2
    /\ Len(vplatforms[2]) = 1


----------------------------------------------------------------------------
\* The accounting of the per-platform path

\* The entry gets as far as the schema of the platform it names
MeetsPlatformSchema(entry) ==
    /\ IsDict(entry.p_config)
    /\ ~HasKey(entry.p_config, kBase)
    /\ ~IsNone(entry.p_name)
    /\ <<entry.p_name.v>> \in DOMAIN integrations
    /\ integrations[<<entry.p_name.v>>].load = "ok"
    /\ integrations[<<entry.p_name.v>>].platform = "schema"

CallsOf(name) == {i \in 1..Len(vcalls[1]) : vcalls[1][i] = name}

\* C26: every entry of the per-platform path is appended once to the output
\* or recorded as one failure, that of the first check it fails, after which
\* no later check is run for it: while the loop runs and when it returns,
\* output entries + failures = entries handled, and the failures are in the
\* order of the entries.
C26_EveryEntryIsAccountedForOnce ==
    /\ (vpc[1] \in {"entries", "platform"} /\ vdom[1] = kLight)
        => Len(vplatforms[1]) + Len(vexc[1]) = vidx[1] - 1
    /\ (Returned /\ PerPlatformPath) =>
        LET failing == SelectSeq(Entries, LAMBDA e : ~Passes(e))
            out == dict_get(Outcome.config, kLight, NoneV)
        IN /\ Len(out.items) + Len(Failures) = Len(Entries)
           /\ Len(Failures) = Len(failing)
           /\ \A i \in 1..Len(failing) :
                /\ Failures[i].translation_key = Classify(failing[i])
                /\ \/ Failures[i].config = failing[i].p_config
                   \/ /\ Failures[i].translation_key = "platform_schema_validator_err"
                      /\ Failures[i].config = config0
           /\ Cardinality(CallsOf("platform.PLATFORM_SCHEMA"))
                = Len(SelectSeq(Entries, LAMBDA e : MeetsPlatformSchema(e)))
           /\ Cardinality({i \in 1..Len(vcalls[1]) :
                             vcalls[1][i] \in {"PLATFORM_SCHEMA", "PLATFORM_SCHEMA_BASE"}})
                = Len(Entries)

\* Three entries: one fails the component's schema, one the schema of its
\* platform, one is appended
C26_Witness ==
    /\ Returned
    /\ PerPlatformPath
    /\ Len(Entries) = 3
    /\ Len(Failures) = 2
    /\ Len(dict_get(Outcome.config, kLight, NoneV).items) = 1
    /\ ~IsDict(Entries[1].p_config) \/ HasKey(Entries[1].p_config, kBase)
    /\ MeetsPlatformSchema(Entries[2])
    /\ ~Passes(Entries[2])

----------------------------------------------------------------------------
\* The core section of a package

\* The packages without their core-section entries
RECURSIVE without_core(_)
without_core(items) ==
    IF items = <<>> THEN <<>>
    ELSE IF Head(items).k = CONF_CORE THEN without_core(Tail(items))
    ELSE <<Head(items)>> \o without_core(Tail(items))

StrippedPackages ==
    Dict([i \in 1..Len(packages.items) |->
            Item(packages.items[i].k, Dict(without_core(packages.items[i].val.items)))])

\* The loop over the pairs from the i-th on
RECURSIVE MergeOf(_, _, _, _)
MergeOf(conf, errors, pairs, i) ==
    IF i > Len(pairs) THEN [config |-> conf, errors |-> errors, raised |-> FALSE]
    ELSE LET p == pairs[i]
             r == merge_component(conf, p.pack_name, p.comp_name, p.comp_conf,
                                  integration_for(partition_head(p.comp_name)))
         IN IF r.raised
            THEN [config |-> r.config, errors |-> errors \o r.errors, raised |-> TRUE]
            ELSE MergeOf(r.config, errors \o r.errors, pairs, i + 1)

CorePairs == {i \in 1..Len(hist) : hist[i].pair.comp_name = CONF_CORE}
MergeEnded == mpc \in {"done", "raised"}

\* C24: a core-section entry of a package is never merged as a domain: the
\* turn of the loop for it loads no integration, reports nothing and leaves
\* the document as it was, and the merge ends with the document and the
\* failures it would have ended with had the packages held no such entry.
C24_CoreSectionIsNeverMerged ==
    /\ \A i \in CorePairs :
        /\ hist[i].policy = "core"
        /\ hist[i].after = hist[i].before
        /\ hist[i].errors = <<>>
        /\ ~hist[i].raised
    /\ (MergeEnded /\ CorePairs # {}) =>
        LET alone == MergeOf(config0, <<>>, pairs_of(StrippedPackages), 1)
        IN /\ config = alone.config
           /\ pkg_errors = alone.errors
           /\ (mpc = "raised") = alone.raised

\* A package with a core section and a sensor section was merged into a
\* document that has a core section: the sensor section went in
C24_Witness ==
    /\ mpc = "done"
    /\ CorePairs # {}
    /\ HasKey(config0, CONF_CORE)
    /\ dict_get(config, CONF_CORE, NoneV) = dict_get(config0, CONF_CORE, NoneV)
    /\ config # config0

----------------------------------------------------------------------------
\* Properties of find_annotation

Found == fret # NoCall /\ fret.fn = "find_annotation"
Prefix(path, j) == SubSeq(path, 1, j)

\* The tag of the node the first j segments of the path lead to
NodeTagAt(doc, path, j) == get_by_path(doc, Prefix(path, j)).tag

\* The tag of the key that the j-th segment names in the mapping the first
\* j-1 segments lead to; the document itself (j = 0) has no key
KeyTagAt(doc, path, j) ==
    LET parent == get_by_path(doc, Prefix(path, j - 1))
        named == IF j > 0 /\ IsDict(parent) /\ path[j].seg = "key"
                 THEN {i \in 1..Len(parent.items) : parent.items[i].k = path[j].k}
                 ELSE {}
    IN IF named = {} THEN NoTag ELSE parent.items[CHOOSE i \in named : TRUE].ktag

TaggedKeys(doc, path) == {j \in 1..Len(path) : KeyTagAt(doc, path, j) # NoTag}
TaggedNodes(doc, path) == {j \in 0..Len(path) : NodeTagAt(doc, path, j) # NoTag}
Longest(S) == CHOOSE j \in S : \A i \in S : i <= j

Terminates == fret.steps <= Len(fcall.path) + 1
UnknownIffUntagged ==
    fret.annotation = NoTag
        <=> TaggedKeys(fcall.config, fcall.path) \cup TaggedNodes(fcall.config, fcall.path) = {}

\* C13 as stated: find_annotation makes at most len(path)+1 calls, returns the
\* tag of the key of the longest prefix of the path whose key is tagged, and
\* returns no annotation exactly when no node or key along the path is tagged.
C13_LongestTaggedKeyPrefix ==
    Found =>
        /\ Terminates
        /\ TaggedKeys(fcall.config, fcall.path) # {}
            => fret.annotation
                 = KeyTagAt(fcall.config, fcall.path,
                            Longest(TaggedKeys(fcall.config, fcall.path)))
        /\ UnknownIffUntagged

\* C13 amended: find_annotation makes at most len(path)+1 calls, returns a tag
\* carried by the key or by the node of the longest prefix of the path at which
\* either is tagged (the key's tag when only keys are tagged), and returns no
\* annotation exactly when no node or key along the path is tagged.
C13_LongestTaggedPrefix ==
    Found =>
        LET keys == TaggedKeys(fcall.config, fcall.path)
            nodes == TaggedNodes(fcall.config, fcall.path)
        IN /\ Terminates
           /\ keys \cup nodes # {}
               => fret.annotation
                    \in {KeyTagAt(fcall.config, fcall.path, Longest(keys \cup nodes)),
                         NodeTagAt(fcall.config, fcall.path, Longest(keys \cup nodes))}
                        \ {NoTag}
           /\ (nodes = {} /\ keys # {})
               => fret.annotation = KeyTagAt(fcall.config, fcall.path, Longest(keys))
           /\ UnknownIffUntagged

\* A path through demo and past the structure, with only the key demo tagged
C13_Witness ==
    /\ Found
    /\ fcall.path = PathToPlatform \o <<Key(kX)>>
    /\ TaggedKeys(fcall.config, fcall.path) = {3}
    /\ TaggedNodes(fcall.config, fcall.path) = {}
    /\ fret.annotation = Tag("3")
    /\ fret.steps = 5


\* The node the whole path leads to, its own tag and the tag of the key that
\* leads to it
Addressed == get_by_path(fcall.config, fcall.path)
OwnTag == NodeTagAt(fcall.config, fcall.path, Len(fcall.path))
LeadingKeyTag == KeyTagAt(fcall.config, fcall.path, Len(fcall.path))
BothTagged == Found /\ OwnTag # NoTag /\ LeadingKeyTag # NoTag

\* C21 as stated: when the key that leads to the addressed node and the node
\* itself are both tagged, find_annotation returns the key's tag, whether the
\* node is a mapping, a sequence or a scalar.
C21_KeyPreferredForEveryKind ==
    BothTagged => fret.annotation = LeadingKeyTag

\* C21 amended: when the key that leads to the addressed node and the node
\* itself are both tagged, find_annotation returns the key's tag if the node is
\* a mapping or a sequence, and the node's own tag if the node is a scalar.
C21_KeyPreferredForContainers ==
    BothTagged =>
        /\ (IsDict(Addressed) \/ IsList(Addressed)) => fret.annotation = LeadingKeyTag
        /\ IsScalar(Addressed) => fret.annotation = OwnTag
        /\ IsDict(Addressed) \/ IsList(Addressed) \/ IsScalar(Addressed)

\* The sequence under light and the key light are both tagged
C21_Witness ==
    /\ BothTagged
    /\ fcall.path = SubSeq(PathToPlatform, 1, 4)
    /\ IsList(Addressed)
    /\ OwnTag = Tag("5")
    /\ fret.annotation = Tag("4")

\* C22: find_annotation leaves its arguments as they were: the document is
\* unchanged and the caller's path has the elements it had before the call.
C22_ArgumentsAreUntouched ==
    Found => fret.config = fcall.config /\ fret.path = fcall.path

\* A lookup that shortened its own list four times on the way to the tag
C22_Witness ==
    /\ Found
    /\ Len(fcall.path) = 7
    /\ fret.steps = 5
    /\ fret.annotation # NoTag
    /\ fret.path = fcall.path

----------------------------------------------------------------------------
\* Properties of _recursive_merge

Merged == fret # NoCall /\ fret.fn = "_recursive_merge"
MergeResult == [conf |-> fret.conf, duplicate_key |-> fret.duplicate_key,
                raised |-> fret.raised]

\* The package without its i-th key
Without(package, i) ==
    Dict(SubSeq(package.items, 1, i - 1)
         \o SubSeq(package.items, i + 1, Len(package.items)))

EmptyMappings(package) ==
    {i \in 1..Len(package.items) : package.items[i].val = Dict(<<>>)}

\* C19: a key of the package whose value is an empty mapping is a no-op: the
\* call does not create the key in the conf, does not replace the conf's value
\* at the key, does not report the key, and ends as the call without that key
\* in the package ends.
C19_EmptyMappingIsANoOp ==
    Merged =>
        \A i \in EmptyMappings(fcall.package) :
            /\ MergeResult = recursive_merge(fcall.conf, Without(fcall.package, i))
            /\ fret.duplicate_key # fcall.package.items[i].k
            /\ IsDict(fcall.conf)
                => /\ IsDict(fret.conf)
                   /\ HasKey(fret.conf, fcall.package.items[i].k)
                        <=> HasKey(fcall.conf, fcall.package.items[i].k)
                   /\ dict_get(fret.conf, fcall.package.items[i].k, NoneV)
                        = dict_get(fcall.conf, fcall.package.items[i].k, NoneV)

\* An empty mapping met a scalar of the conf and the call went on to merge the
\* key after it
C19_Witness ==
    /\ Merged
    /\ fcall.conf = Dict(<<Item(kE, Scalar("5"))>>)
    /\ fcall.package = Dict(<<Item(kE, Dict(<<>>)), Item(kB, Scalar("2"))>>)
    /\ fret.conf = Dict(<<Item(kE, Scalar("5")), Item(kB, Scalar("2"))>>)
    /\ fret.duplicate_key = NoKey
    /\ ~fret.raised


\* What the claim expects at a key whose package value is the sequence seq
Additive(existing, seq) == List(remove_falsy(ensure_list(existing) \o seq))

\* The keys of a mapping whose value is a sequence
Sequences(package) ==
    {i \in 1..Len(package.items) : IsList(package.items[i].val)}
Mappings(package) ==
    {i \in 1..Len(package.items) : IsDict(package.items[i].val)}

\* The value at a key of a value that may be no mapping
ValueAt(value, k) == IF IsDict(value) THEN dict_get(value, k, NoneV) ELSE NoneV

\* C20: a key of the package whose value is a sequence is always additive, at
\* the top of the package and one level down: after the call the conf holds at
\* that key drop_falsy(ensure_list(what it held) ++ the sequence), and the key
\* is not reported as a duplicate.
C20_SequencesAreAlwaysAdditive ==
    (Merged /\ IsDict(fcall.conf)) =>
        /\ \A i \in Sequences(fcall.package) :
            LET key == fcall.package.items[i].k IN
            /\ ~fret.raised
            /\ fret.duplicate_key # key
            /\ ValueAt(fret.conf, key)
                 = Additive(ValueAt(fcall.conf, key), fcall.package.items[i].val.items)
        /\ \A i \in Mappings(fcall.package) :
            \A j \in Sequences(fcall.package.items[i].val) :
                LET outer == fcall.package.items[i].k
                    key == fcall.package.items[i].val.items[j].k
                    seq == fcall.package.items[i].val.items[j].val.items
                IN /\ ~fret.raised
                   /\ fret.duplicate_key # key
                   /\ ValueAt(ValueAt(fret.conf, outer), key)
                        = Additive(ValueAt(ValueAt(fcall.conf, outer), key), seq)

\* The call stopped at a scalar conflict before it reached the sequence
C20_StoppedBeforeTheSequence ==
    /\ Merged
    /\ fcall.conf = Dict(<<Item(kA, Scalar("5")), Item(kL, List(<<Scalar("1"), Scalar("0")>>))>>)
    /\ fcall.package = Dict(<<Item(kA, Scalar("1")), Item(kL, List(<<Scalar("2")>>))>>)
    /\ fret.duplicate_key = kA
    /\ fret.conf = fcall.conf


----------------------------------------------------------------------------
\* Properties of humanize_error

Humanized ==
    /\ fret # NoCall
    /\ fret.fn = "humanize_error"
    /\ fcall.validation_error.cls = "MultipleInvalid"
SubErrorsGiven == fcall.validation_error.errors

\* The message of each sub-error, formatted on its own
Formatted(errors) ==
    [i \in 1..Len(errors) |->
        humanize_error(errors[i], fcall.domain, fcall.config, fcall.link,
                       fcall.max_sub_error_length)]

Orders(n) == {f \in [1..n -> 1..n] : \A i, j \in 1..n : f[i] = f[j] => i = j}
InOrder(s, f) == [i \in 1..Len(s) |-> s[f[i]]]
Ascending(strings) ==
    \A i \in 1..(Len(strings) - 1) : ~str_less(strings[i + 1], strings[i])

\* C23: the output for a failure with several sub-errors is the messages of
\* the sub-errors, each formatted on its own, in ascending lexicographic order
\* and joined by line breaks, and it is the same for every order in which the
\* same sub-errors are given.
C23_SubErrorsAreSortedAndOrderFree ==
    Humanized =>
        /\ \E f \in Orders(Len(SubErrorsGiven)) :
            /\ Ascending(InOrder(Formatted(SubErrorsGiven), f))
            /\ fret.message = join(Newline, InOrder(Formatted(SubErrorsGiven), f))
        /\ \A f \in Orders(Len(SubErrorsGiven)) :
            humanize_error(MultipleInvalid(InOrder(SubErrorsGiven, f)), fcall.domain,
                           fcall.config, fcall.link, fcall.max_sub_error_length)
                = fret.message

\* Three different sub-errors were given in an order that is not the sorted one
C23_Witness ==
    /\ Humanized
    /\ Len(SubErrorsGiven) = 3
    /\ \A i, j \in 1..3 : i # j => SubErrorsGiven[i] # SubErrorsGiven[j]
    /\ ~Ascending(Formatted(SubErrorsGiven))
    /\ fret.message # join(Newline, Formatted(SubErrorsGiven))


\* The keys of a fragment mapping whose value is a scalar while the target
\* holds a value that is not None at the key
ScalarConflicts(target, frag) ==
    {i \in 1..Len(frag.items) :
        /\ ~IsDict(frag.items[i].val)
        /\ ~IsList(frag.items[i].val)
        /\ ~IsNone(ValueAt(target, frag.items[i].k))}
First(S) == CHOOSE i \in S : \A j \in S : i <= j
Before(frag, i) == Dict(SubSeq(frag.items, 1, i - 1))

\* The merge gets as far as the i-th key of the fragment
Reaches(target, frag, i) ==
    /\ IsDict(target)
    /\ ~recursive_merge(target, Before(frag, i)).raised
    /\ \A j \in ScalarConflicts(target, frag) : i <= j

\* The mappings of the fragment that are merged into a mapping of the conf
NestedMerges(target, frag) ==
    {i \in 1..Len(frag.items) :
        /\ IsDict(frag.items[i].val)
        /\ Len(frag.items[i].val.items) > 0
        /\ Reaches(target, frag, i)
        /\ IsDict(dict_get(target, frag.items[i].k, Dict(<<>>)))}

\* C25: when the merge hits a scalar conflict at key k of a mapping, at the top
\* of the fragment or one level down, the keys of that mapping before k are
\* merged and stay merged, the keys after k are not merged, and k is the key
\* reported.
C25_FirstConflictStopsAndIsReported ==
    (Merged /\ IsDict(fcall.conf)) =>
        /\ \A i \in ScalarConflicts(fcall.conf, fcall.package) :
            (i = First(ScalarConflicts(fcall.conf, fcall.package))
             /\ Reaches(fcall.conf, fcall.package, i))
            => /\ ~fret.raised
               /\ fret.duplicate_key = fcall.package.items[i].k
               /\ fret.conf = recursive_merge(fcall.conf, Before(fcall.package, i)).conf
        /\ \A i \in NestedMerges(fcall.conf, fcall.package) :
            LET target == dict_get(fcall.conf, fcall.package.items[i].k, Dict(<<>>))
                frag == fcall.package.items[i].val
                hit == ScalarConflicts(target, frag)
            IN (hit # {} /\ Reaches(target, frag, First(hit)))
               => /\ fret.duplicate_key = frag.items[First(hit)].k
                  /\ ValueAt(fret.conf, fcall.package.items[i].k)
                       = recursive_merge(target, Before(frag, First(hit))).conf

\* The part of C25 for a conflict at the top of the fragment
C25_TopConflictStopsAndIsReported ==
    (Merged /\ IsDict(fcall.conf)) =>
        \A i \in ScalarConflicts(fcall.conf, fcall.package) :
            (i = First(ScalarConflicts(fcall.conf, fcall.package))
             /\ Reaches(fcall.conf, fcall.package, i))
            => /\ ~fret.raised
               /\ fret.duplicate_key = fcall.package.items[i].k
               /\ fret.conf = recursive_merge(fcall.conf, Before(fcall.package, i)).conf

====
